---- MODULE Spec2Model ----
(***************************************************************************)
(* Verification model of the qonaqai pricing engine                        *)
(* (src/src/pricing-engine).  Every engine entry point is an action: a     *)
(* behaviour starts with the entry point and its arguments (fn, args),     *)
(* drawn from bounded sets, and the call action runs the function as the   *)
(* source computes it and stores what it returns in result.                *)
(*                                                                         *)
(* JavaScript numbers are modelled as exact rationals [n, d] in lowest     *)
(* terms, so two numbers are equal exactly when their records are equal;   *)
(* Math.round is floor(x + 1/2).  Binary floating point can differ from    *)
(* this only where a value to be rounded lies within an ulp of a tie.      *)
(* The wall clock read by `new Date()` is the variable today, a day        *)
(* number.                                                                 *)
(***************************************************************************)
EXTENDS Integers, Sequences, FiniteSets, TLC

VARIABLES fn, args, result, pc, today,
          clock, memCache, weather_cache, event_cache, response

vars == <<fn, args, result, pc, today,
          clock, memCache, weather_cache, event_cache, response>>

\* The data-fetch collaborators (fetchWeatherData, fetchEventData and the
\* weather and events edge functions) keep state between calls: clock is
\* Date.now() in hours, memCache the in-memory Map of the browser session,
\* weather_cache and event_cache the tables of the edge functions, response
\* what supabase.functions.invoke returned during the last call.  The
\* pricing functions neither read nor write any of it.
providerVars == <<clock, memCache, weather_cache, event_cache, response>>

\* a new session against a new deployment: `new Map()` and empty tables
ProviderCold ==
  /\ clock = 0
  /\ memCache = {}
  /\ weather_cache = {}
  /\ event_cache = {}
  /\ response = <<>>

(***************************************************************************)
(* Numbers                                                                 *)
(***************************************************************************)
Abs(x) == IF x < 0 THEN -x ELSE x

RECURSIVE GCD(_, _)
GCD(a, b) == IF b = 0 THEN a ELSE GCD(b, a % b)

\* the number n/d in lowest terms with a positive denominator (d # 0)
Rat(n, d) ==
  LET g == GCD(Abs(n), Abs(d))
      s == IF d < 0 THEN -1 ELSE 1
  IN  [n |-> (s * n) \div g, d |-> (s * d) \div g]

R(i) == [n |-> i, d |-> 1]

\* sums and comparisons go through the least common denominator
RAdd(x, y) ==
  LET g == GCD(x.d, y.d)
  IN  Rat(x.n * (y.d \div g) + y.n * (x.d \div g), (x.d \div g) * y.d)
RSub(x, y) == RAdd(x, [n |-> -y.n, d |-> y.d])
RMul(x, y) ==
  LET g1 == GCD(Abs(x.n), y.d)
      g2 == GCD(Abs(y.n), x.d)
  IN  Rat((x.n \div g1) * (y.n \div g2), (x.d \div g2) * (y.d \div g1))
RDiv(x, y) == RMul(x, Rat(y.d, y.n))
RLe(x, y) ==
  LET g == GCD(x.d, y.d) IN x.n * (y.d \div g) <= y.n * (x.d \div g)
RLt(x, y) ==
  LET g == GCD(x.d, y.d) IN x.n * (y.d \div g) < y.n * (x.d \div g)
RMax(x, y) == IF RLt(x, y) THEN y ELSE x
RMin(x, y) == IF RLt(y, x) THEN y ELSE x
RClamp(x, lo, hi) == RMax(lo, RMin(hi, x))

\* Math.round: the nearest integer, a tie going up
RRound(x) == R((x.n \div x.d) + (IF 2 * (x.n % x.d) >= x.d THEN 1 ELSE 0))

\* Math.round(x * 10^k) / 10^k
RRoundTo(x, scale) == RDiv(RRound(RMul(x, R(scale))), R(scale))

\* an optional field is <<>> when absent and <<v>> when present;
\* OrElse is the destructuring default / the ?? operator
OrElse(opt, dflt) == IF opt = <<>> THEN dflt ELSE opt[1]

\* NaN, the value of 0 / 0: arithmetic on it gives NaN (Math.round, Math.min
\* and Math.max included) and every comparison with it is false
NaN == [n |-> 0, d |-> 0]

IsNaN(x) == x.d = 0

(***************************************************************************)
(* priceOptimizer.ts: demandToMultiplier, calculatePrice                   *)
(***************************************************************************)
\* mutant: demandScore 85 already priced as surge
demandToMultiplier_MutSurgeAt85(demandScore) ==
  IF RLt(demandScore, R(50))
  THEN [multiplier |-> RAdd(Rat(80, 100), RMul(RDiv(demandScore, R(50)), Rat(10, 100))),
        tier |-> "discount"]
  ELSE IF RLe(demandScore, R(70))
  THEN [multiplier |-> RAdd(Rat(95, 100), RMul(RDiv(RSub(demandScore, R(50)), R(20)), Rat(10, 100))),
        tier |-> "base"]
  ELSE IF RLt(demandScore, R(85))
  THEN [multiplier |-> RAdd(Rat(110, 100), RMul(RDiv(RSub(demandScore, R(70)), R(15)), Rat(15, 100))),
        tier |-> "premium"]
  ELSE [multiplier |-> RAdd(Rat(130, 100), RMul(RMin(RDiv(RSub(demandScore, R(85)), R(15)), R(1)), Rat(20, 100))),
        tier |-> "surge"]

\* mutant: the base band interpolated over 10 points instead of 20
demandToMultiplier_MutBaseSlope(demandScore) ==
  IF RLt(demandScore, R(50))
  THEN [multiplier |-> RAdd(Rat(80, 100), RMul(RDiv(demandScore, R(50)), Rat(10, 100))),
        tier |-> "discount"]
  ELSE IF RLe(demandScore, R(70))
  THEN [multiplier |-> RAdd(Rat(95, 100), RMul(RDiv(RSub(demandScore, R(50)), R(10)), Rat(10, 100))),
        tier |-> "base"]
  ELSE IF RLe(demandScore, R(85))
  THEN [multiplier |-> RAdd(Rat(110, 100), RMul(RDiv(RSub(demandScore, R(70)), R(15)), Rat(15, 100))),
        tier |-> "premium"]
  ELSE [multiplier |-> RAdd(Rat(130, 100), RMul(RMin(RDiv(RSub(demandScore, R(85)), R(15)), R(1)), Rat(20, 100))),
        tier |-> "surge"]

demandToMultiplier(demandScore) ==
  IF IsNaN(demandScore)
  THEN [multiplier |-> NaN, tier |-> "surge"]
  ELSE IF RLt(demandScore, R(50))
  THEN [multiplier |-> RAdd(Rat(80, 100), RMul(RDiv(demandScore, R(50)), Rat(10, 100))),
        tier |-> "discount"]
  ELSE IF RLe(demandScore, R(70))
  THEN [multiplier |-> RAdd(Rat(95, 100), RMul(RDiv(RSub(demandScore, R(50)), R(20)), Rat(10, 100))),
        tier |-> "base"]
  ELSE IF RLe(demandScore, R(85))
  THEN [multiplier |-> RAdd(Rat(110, 100), RMul(RDiv(RSub(demandScore, R(70)), R(15)), Rat(15, 100))),
        tier |-> "premium"]
  ELSE [multiplier |-> RAdd(Rat(130, 100), RMul(RMin(RDiv(RSub(demandScore, R(85)), R(15)), R(1)), Rat(20, 100))),
        tier |-> "surge"]

\* mutant: saturation already at the threshold
IsSaturatedAt_MutAtThreshold(projectedOccupancy, saturationThreshold) ==
  /\ projectedOccupancy # <<>>
  /\ RLe(saturationThreshold, projectedOccupancy[1])

\* the saturation test of calculatePrice (line 89)
IsSaturatedAt(projectedOccupancy, saturationThreshold) ==
  /\ projectedOccupancy # <<>>
  /\ RLt(saturationThreshold, projectedOccupancy[1])

\* mutant: saturation takes off what it should add
SaturationBoostOf_MutDiscount(projectedOccupancy, saturationThreshold) ==
  RSub(R(0), RMul(RDiv(RSub(projectedOccupancy, saturationThreshold),
                       RSub(R(100), saturationThreshold)),
                  Rat(20, 100)))

\* the un-rounded saturation boost of calculatePrice (lines 94-95)
SaturationBoostOf(projectedOccupancy, saturationThreshold) ==
  RMul(RDiv(RSub(projectedOccupancy, saturationThreshold),
            RSub(R(100), saturationThreshold)),
       Rat(20, 100))

\* the final clamp and rounding of calculatePrice (line 102)
ClampAndRound(rawPrice, floor, ceiling) ==
  RRound(RMax(floor, RMin(ceiling, rawPrice)))

MinPriceOf_MutNoFloor(floor, recommendedPrice, minSpread) ==
  RRound(RMul(recommendedPrice, RSub(R(1), minSpread)))

\* the lower end of the price range (line 104)
MinPriceOf(floor, recommendedPrice, minSpread) ==
  RRound(RMax(floor, RMul(recommendedPrice, RSub(R(1), minSpread))))

\* the upper end of the price range (line 105)
MaxPriceOf(ceiling, recommendedPrice, maxSpread) ==
  RRound(RMin(ceiling, RMul(recommendedPrice, RAdd(R(1), maxSpread))))

calculatePrice(demandScore, config) ==
  LET basePrice == config.basePrice
      floorMultiplier == OrElse(config.floorMultiplier, Rat(70, 100))
      ceilingMultiplier == OrElse(config.ceilingMultiplier, Rat(180, 100))
      minSpread == OrElse(config.minSpread, Rat(15, 100))
      maxSpread == OrElse(config.maxSpread, Rat(20, 100))
      saturationThreshold == OrElse(config.saturationThreshold, R(95))
      projectedOccupancy == config.projectedOccupancy
      dm == demandToMultiplier(demandScore)
      isSaturated == IsSaturatedAt(projectedOccupancy, saturationThreshold)
      saturationBoost ==
        IF isSaturated
        THEN SaturationBoostOf(projectedOccupancy[1], saturationThreshold)
        ELSE R(0)
      multiplier ==
        IF IsNaN(dm.multiplier) THEN NaN
        ELSE IF isSaturated
        THEN RMul(dm.multiplier, RAdd(R(1), saturationBoost))
        ELSE dm.multiplier
      tier == IF isSaturated THEN "saturation" ELSE dm.tier
      rawPrice == IF IsNaN(multiplier) THEN NaN ELSE RMul(basePrice, multiplier)
      floor == RMul(basePrice, floorMultiplier)
      ceiling == RMul(basePrice, ceilingMultiplier)
      recommendedPrice ==
        IF IsNaN(rawPrice) THEN NaN ELSE ClampAndRound(rawPrice, floor, ceiling)
      minPrice ==
        IF IsNaN(recommendedPrice) THEN NaN
        ELSE MinPriceOf(floor, recommendedPrice, minSpread)
      maxPrice ==
        IF IsNaN(recommendedPrice) THEN NaN
        ELSE MaxPriceOf(ceiling, recommendedPrice, maxSpread)
  IN  [recommendedPrice |-> recommendedPrice,
       minPrice |-> minPrice,
       maxPrice |-> maxPrice,
       priceMultiplier |-> IF IsNaN(multiplier) THEN NaN ELSE RRoundTo(multiplier, 1000),
       pricingTier |-> tier,
       isSaturated |-> isSaturated,
       saturationBoost |-> RRoundTo(saturationBoost, 1000)]

(***************************************************************************)
(* elasticityModel.ts: calculateElasticity                                 *)
(***************************************************************************)
\* mutant: the response has the sign of the price change
OccupancyChangePoints_MutSign(priceChangePercent, useNonLinear, elasticityK, elasticityCoefficient) ==
  IF useNonLinear
  THEN LET sign == IF RLe(R(0), priceChangePercent) THEN R(1) ELSE R(-1)
       IN  RMul(RMul(RMul(sign, elasticityK), priceChangePercent), priceChangePercent)
  ELSE RMul(elasticityCoefficient, priceChangePercent)

\* mutant: the legacy linear response is used in non-linear mode too
OccupancyChangePoints_MutLinear(priceChangePercent, useNonLinear, elasticityK, elasticityCoefficient) ==
  RMul(elasticityCoefficient, priceChangePercent)

\* lines 74-83: the occupancy change in percentage points
OccupancyChangePoints(priceChangePercent, useNonLinear, elasticityK, elasticityCoefficient) ==
  IF useNonLinear
  THEN LET sign == IF RLe(R(0), priceChangePercent) THEN R(-1) ELSE R(1)
       IN  RMul(RMul(RMul(sign, elasticityK), priceChangePercent), priceChangePercent)
  ELSE RMul(elasticityCoefficient, priceChangePercent)

\* mutant: the degenerate case clamps the occupancy it returns
calculateElasticity_MutClampDegenerate(baseOccupancy, recommendedPrice, manualPrice, config) ==
  LET elasticityK == OrElse(config.elasticityK, Rat(4, 1000))
      elasticityCoefficient == OrElse(config.elasticityCoefficient, Rat(-4, 10))
      occupancyFloor == OrElse(config.occupancyFloor, R(15))
      occupancyCeiling == OrElse(config.occupancyCeiling, R(98))
      useNonLinear == OrElse(config.useNonLinear, TRUE)
      coefficient == IF useNonLinear THEN elasticityK ELSE elasticityCoefficient
  IN  IF recommendedPrice = R(0)
      THEN [projectedOccupancy |-> RMax(occupancyFloor, RMin(occupancyCeiling, baseOccupancy)),
            occupancyChange |-> R(0),
            priceChangePercent |-> R(0),
            elasticityCoefficient |-> coefficient,
            isNonLinear |-> useNonLinear]
      ELSE
        LET priceChangePercent ==
              RMul(RDiv(RSub(manualPrice, recommendedPrice), recommendedPrice), R(100))
            occupancyChangePoints ==
              OccupancyChangePoints(priceChangePercent, useNonLinear,
                                    elasticityK, elasticityCoefficient)
            rawOccupancy == RAdd(baseOccupancy, occupancyChangePoints)
            projectedOccupancy ==
              RMax(occupancyFloor, RMin(occupancyCeiling, RRound(rawOccupancy)))
        IN  [projectedOccupancy |-> projectedOccupancy,
             occupancyChange |-> RRoundTo(occupancyChangePoints, 10),
             priceChangePercent |-> RRoundTo(priceChangePercent, 10),
             elasticityCoefficient |-> coefficient,
             isNonLinear |-> useNonLinear]

calculateElasticity(baseOccupancy, recommendedPrice, manualPrice, config) ==
  LET elasticityK == OrElse(config.elasticityK, Rat(4, 1000))
      elasticityCoefficient == OrElse(config.elasticityCoefficient, Rat(-4, 10))
      occupancyFloor == OrElse(config.occupancyFloor, R(15))
      occupancyCeiling == OrElse(config.occupancyCeiling, R(98))
      useNonLinear == OrElse(config.useNonLinear, TRUE)
      coefficient == IF useNonLinear THEN elasticityK ELSE elasticityCoefficient
  IN  IF recommendedPrice = R(0)
      THEN [projectedOccupancy |-> baseOccupancy,
            occupancyChange |-> R(0),
            priceChangePercent |-> R(0),
            elasticityCoefficient |-> coefficient,
            isNonLinear |-> useNonLinear]
      ELSE
        LET priceChangePercent ==
              RMul(RDiv(RSub(manualPrice, recommendedPrice), recommendedPrice), R(100))
            occupancyChangePoints ==
              OccupancyChangePoints(priceChangePercent, useNonLinear,
                                    elasticityK, elasticityCoefficient)
            rawOccupancy == RAdd(baseOccupancy, occupancyChangePoints)
            projectedOccupancy ==
              RMax(occupancyFloor, RMin(occupancyCeiling, RRound(rawOccupancy)))
        IN  [projectedOccupancy |-> projectedOccupancy,
             occupancyChange |-> RRoundTo(occupancyChangePoints, 10),
             priceChangePercent |-> RRoundTo(priceChangePercent, 10),
             elasticityCoefficient |-> coefficient,
             isNonLinear |-> useNonLinear]

(***************************************************************************)
(* Inputs of calculateElasticity                                           *)
(***************************************************************************)
\* manual prices are the integers 0..MaxManualPrice
MaxManualPrice == 160

ManualPrices == {R(i) : i \in 0..MaxManualPrice}

BaseOccupancies == {R(0), R(20), R(72), R(98), R(100)}

RecommendedPrices == {R(0), R(100), R(120)}

DefaultElasticityConfig ==
  [elasticityK |-> <<>>, elasticityCoefficient |-> <<>>, occupancyFloor |-> <<>>,
   occupancyCeiling |-> <<>>, useNonLinear |-> <<>>]

ElasticityConfigs ==
  { DefaultElasticityConfig,
    [DefaultElasticityConfig EXCEPT !.useNonLinear = <<FALSE>>],
    [DefaultElasticityConfig EXCEPT !.elasticityK = <<Rat(1, 100)>>] }

(***************************************************************************)
(* Dates.  A Date is a day number (days since 1970-01-01, midnight).       *)
(***************************************************************************)
\* Date.prototype.getDay: 0 = Sunday (1970-01-01 was a Thursday)
GetDay(date) == (date + 4) % 7

\* Date.prototype.getMonth: 0 = January (proleptic Gregorian calendar)
GetMonth(date) ==
  LET z == date + 719468
      era == z \div 146097
      doe == z - era * 146097
      yoe == (doe - doe \div 1460 + doe \div 36524 - doe \div 146096) \div 365
      doy == doe - (365 * yoe + yoe \div 4 - yoe \div 100)
      mp == (5 * doy + 2) \div 153
  IN  IF mp < 10 THEN mp + 2 ELSE mp - 10

(***************************************************************************)
(* forecastAccuracy.ts (weighted demand model): calculateDemandScore       *)
(***************************************************************************)
SEASONALITY_FACTORS ==
  [m \in 0..11 |->
     Rat(<<75, 80, 88, 95, 105, 115, 125, 125, 110, 100, 82, 85>>[m + 1], 100)]

WEEKDAY_FACTORS ==
  [d \in 0..6 |-> Rat(<<90, 78, 80, 85, 92, 115, 112>>[d + 1], 100)]

EVENT_IMPACTS ==
  [conference |-> Rat(118, 100), festival |-> Rat(125, 100), sports |-> Rat(115, 100),
   holiday |-> Rat(112, 100), trade_fair |-> Rat(120, 100), concert |-> Rat(110, 100),
   none |-> R(1)]

SCHEDULED_EVENTS ==
  << [dayOffset |-> 3, type |-> "conference", name |-> "Tech Conference"],
     [dayOffset |-> 7, type |-> "sports", name |-> "City Marathon"],
     [dayOffset |-> 14, type |-> "festival", name |-> "Music Festival"],
     [dayOffset |-> 15, type |-> "festival", name |-> "Music Festival"],
     [dayOffset |-> 21, type |-> "trade_fair", name |-> "Trade Fair"],
     [dayOffset |-> 22, type |-> "trade_fair", name |-> "Trade Fair"],
     [dayOffset |-> 25, type |-> "holiday", name |-> "National Holiday" ] >>

DEFAULT_DEMAND_WEIGHTS ==
  [weekdayAvg |-> Rat(30, 100), trend7Day |-> Rat(20, 100),
   seasonality30Day |-> Rat(20, 100), eventStrength |-> Rat(15, 100),
   bookingPace |-> Rat(15, 100)]

\* Math.sin(dayOffset * Math.PI / 30), tabulated to four decimals over a
\* quarter period and extended by the symmetries of the sine
SinQuarter ==
  << 0, 1045, 2079, 3090, 4067, 5000, 5878, 6691, 7431, 8090, 8660, 9135,
     9511, 9781, 9945, 10000 >>

SinOfDayOffset(dayOffset) ==
  LET r == dayOffset % 60
  IN  IF r <= 15 THEN Rat(SinQuarter[r + 1], 10000)
      ELSE IF r <= 30 THEN Rat(SinQuarter[30 - r + 1], 10000)
      ELSE IF r <= 45 THEN Rat(-SinQuarter[r - 30 + 1], 10000)
      ELSE Rat(-SinQuarter[60 - r + 1], 10000)

calculateTrendMomentum(dayOffset) ==
  RAdd(R(1), RMul(SinOfDayOffset(dayOffset), Rat(6, 100)))

multiplierToScore(multiplier, baseOccupancy) ==
  RMax(R(0), RMin(R(100), RRound(RMul(RMul(baseOccupancy, multiplier), R(100)))))

calculateBookingPaceVelocity(dayOffset, trendFactor, provided) ==
  IF provided # <<>>
  THEN RMax(R(-1), RMin(R(1), provided[1]))
  ELSE LET leadTimeFactor == RMax(R(0), RSub(R(1), Rat(dayOffset, 30)))
           pace == RMul(RMul(RSub(trendFactor, R(1)), R(3)), leadTimeFactor)
       IN  RMax(R(-1), RMin(R(1), RRoundTo(pace, 100)))

\* SCHEDULED_EVENTS.find(e => e.dayOffset === dayOffset): <<>> or <<event>>
FindScheduledEvent(dayOffset) ==
  LET hits == {k \in 1..Len(SCHEDULED_EVENTS) : SCHEDULED_EVENTS[k].dayOffset = dayOffset}
  IN  IF hits = {} THEN <<>>
      ELSE <<SCHEDULED_EVENTS[CHOOSE k \in hits : \A j \in hits : k <= j]>>

\* mutant: the weighted sum is used without re-centering on 50
NormalizedBase_MutNoRecenter(baseWeighted, baseOccupancy) == baseWeighted

\* lines 467-468: re-center the weighted sum on 50
NormalizedBase(baseWeighted, baseOccupancy) ==
  LET historicalCenter == RMul(baseOccupancy, R(100))
  IN  RAdd(R(50), RSub(baseWeighted, historicalCenter))

calculateDemandScore(date, dayOffset, config) ==
  LET month == GetMonth(date)
      dayOfWeek == GetDay(date)
      w == [k \in DOMAIN DEFAULT_DEMAND_WEIGHTS |->
              OrElse(config.weights[k], DEFAULT_DEMAND_WEIGHTS[k])]
      seasonalityFactor == SEASONALITY_FACTORS[month]
      weekdayFactor == WEEKDAY_FACTORS[dayOfWeek]
      scheduledEvent == FindScheduledEvent(dayOffset)
      eventType == IF scheduledEvent = <<>> THEN "none" ELSE scheduledEvent[1].type
      eventMultiplier == EVENT_IMPACTS[eventType]
      trendFactor == OrElse(config.trendMomentum, calculateTrendMomentum(dayOffset))
      bookingPaceVelocity ==
        IF IsNaN(trendFactor) /\ config.bookingPaceVelocity = <<>> THEN NaN
        ELSE calculateBookingPaceVelocity(dayOffset, trendFactor, config.bookingPaceVelocity)
      weekdayAvgOcc ==
        OrElse(config.historicalWeekdayAvg, RMul(config.baseOccupancy, weekdayFactor))
      weekdayAvgScore == RMax(R(0), RMin(R(100), RRound(RMul(weekdayAvgOcc, R(100)))))
      trend7Day == OrElse(config.historicalTrend7Day, trendFactor)
      trendScore ==
        IF IsNaN(trend7Day) THEN NaN
        ELSE multiplierToScore(trend7Day, config.baseOccupancy)
      seasonality30Day == OrElse(config.historicalSeasonality30Day, seasonalityFactor)
      seasonalityScore == multiplierToScore(seasonality30Day, config.baseOccupancy)
      eventScore == RRound(RMin(R(100), RMul(RSub(eventMultiplier, R(1)), R(400))))
      bookingPaceScore ==
        IF IsNaN(bookingPaceVelocity) THEN NaN
        ELSE RRound(RMax(R(0), RMin(R(100), RMul(RAdd(bookingPaceVelocity, R(1)), R(50)))))
      externalSignalScore == OrElse(config.externalSignalScore, R(0))
      baseWeighted ==
        IF IsNaN(trendScore) \/ IsNaN(bookingPaceScore) THEN NaN
        ELSE
        RAdd(RAdd(RAdd(RAdd(RMul(w.weekdayAvg, weekdayAvgScore),
                            RMul(w.trend7Day, trendScore)),
                       RMul(w.seasonality30Day, seasonalityScore)),
                  RMul(w.eventStrength, eventScore)),
             RMul(w.bookingPace, bookingPaceScore))
      normalizedBase ==
        IF IsNaN(baseWeighted) THEN NaN
        ELSE NormalizedBase(baseWeighted, config.baseOccupancy)
      demandScore ==
        IF IsNaN(normalizedBase) THEN NaN
        ELSE RMax(R(0), RMin(R(100), RRound(RAdd(normalizedBase, externalSignalScore))))
  IN  [demandScore |-> demandScore,
       seasonalityFactor |-> seasonalityFactor,
       weekdayFactor |-> weekdayFactor,
       eventMultiplier |-> eventMultiplier,
       trendFactor |-> IF IsNaN(trendFactor) THEN NaN ELSE RRoundTo(trendFactor, 1000),
       bookingPaceVelocity |-> bookingPaceVelocity,
       externalSignalScore |-> externalSignalScore,
       event |-> IF scheduledEvent = <<>> THEN <<>> ELSE <<scheduledEvent[1].name>>,
       components |-> [weekdayAvgScore |-> weekdayAvgScore,
                       trendScore |-> trendScore,
                       seasonalityScore |-> seasonalityScore,
                       eventScore |-> eventScore,
                       bookingPaceScore |-> bookingPaceScore],
       weights |-> w]

(***************************************************************************)
(* Inputs of calculateDemandScore                                          *)
(***************************************************************************)
\* the dates are FirstDate, FirstDate + DateStride, ...: NumDates of them,
\* one in every month and on every day of the week
FirstDate == 20454
DateStride == 31
NumDates == 12
MaxDayOffset == 31

DemandDates == {FirstDate + k * DateStride : k \in 0..(NumDates - 1)}

DayOffsets == 0..MaxDayOffset

DemandBaseOccupancies == {R(0), Rat(50, 100), Rat(72, 100), R(1)}

NoWeights ==
  [weekdayAvg |-> <<>>, trend7Day |-> <<>>, seasonality30Day |-> <<>>,
   eventStrength |-> <<>>, bookingPace |-> <<>>]

\* a configuration with only baseOccupancy set
BareDemandConfig(baseOccupancy) ==
  [baseOccupancy |-> baseOccupancy, trendMomentum |-> <<>>, weights |-> NoWeights,
   historicalWeekdayAvg |-> <<>>, historicalTrend7Day |-> <<>>,
   historicalSeasonality30Day |-> <<>>, bookingPaceVelocity |-> <<>>,
   externalSignalScore |-> <<>>]

DemandConfigsFor(b) ==
  LET bare == BareDemandConfig(b)
  IN  { bare,
        [bare EXCEPT !.externalSignalScore = <<R(10)>>],
        [bare EXCEPT !.externalSignalScore = <<R(20)>>],
        [bare EXCEPT !.trendMomentum = <<Rat(85, 100)>>],
        [bare EXCEPT !.trendMomentum = <<Rat(115, 100)>>],
        [bare EXCEPT !.historicalWeekdayAvg = <<Rat(90, 100)>>,
                     !.historicalTrend7Day = <<Rat(120, 100)>>,
                     !.historicalSeasonality30Day = <<Rat(130, 100)>>,
                     !.bookingPaceVelocity = <<Rat(150, 100)>>,
                     !.externalSignalScore = <<Rat(137, 10)>>],
        [bare EXCEPT !.historicalWeekdayAvg = <<Rat(10, 100)>>,
                     !.historicalTrend7Day = <<Rat(80, 100)>>,
                     !.historicalSeasonality30Day = <<Rat(70, 100)>>,
                     !.bookingPaceVelocity = <<R(-1)>>],
        [bare EXCEPT !.weights = [NoWeights EXCEPT !.weekdayAvg = <<R(1)>>,
                                                   !.eventStrength = <<R(1)>>],
                     !.externalSignalScore = <<R(10)>>],
        [bare EXCEPT !.weights = [NoWeights EXCEPT !.weekdayAvg = <<R(0)>>,
                                                   !.trend7Day = <<R(0)>>]] }

DemandConfigs == UNION {DemandConfigsFor(b) : b \in DemandBaseOccupancies}

(***************************************************************************)
(* priceOptimizer.ts (external market signals): getEventImpact,            *)
(* computeWeatherImpact, getWeatherImpact, getCompetitorImpact,            *)
(* getExternalSignalScore.  An event's date string is the day number of    *)
(* the ISO date it spells.                                                 *)
(***************************************************************************)
EVENT_CATEGORY_WEIGHTS ==
  [conference |-> Rat(120, 100), concert |-> Rat(110, 100), sports |-> Rat(115, 100),
   festival |-> Rat(125, 100), trade_fair |-> Rat(120, 100), holiday |-> Rat(112, 100),
   meetup |-> Rat(60, 100), other |-> Rat(80, 100)]

\* String.prototype.toLowerCase on the category names that occur
ToLowerCase(str) ==
  CASE str = "Festival" -> "festival"
    [] str = "Almaty" -> "almaty"
    [] OTHER -> str

\* Math.log on the arguments that occur, to four decimals
MathLog(x) ==
  Rat(CASE x = 1 -> 0
        [] x = 11 -> 23979
        [] x = 31 -> 34340
        [] x = 46 -> 38286
        [] x = 91 -> 45109
        [] x = 1001 -> 69088
        [] x = 1000000001 -> 207233, 10000)

IntMax(a, b) == IF a < b THEN b ELSE a
IntMin(a, b) == IF a < b THEN a ELSE b

\* the loop of getEventImpact (lines 410-415) over dayEvents[k..]
RECURSIVE EventScoreFrom(_, _)
EventScoreFrom(dayEvents, k) ==
  IF k > Len(dayEvents) THEN R(0)
  ELSE LET evt == dayEvents[k]
           attendance == IntMax(0, evt.estimatedAttendance)
           category == ToLowerCase(evt.category)
           categoryWeight == IF category \in DOMAIN EVENT_CATEGORY_WEIGHTS
                             THEN EVENT_CATEGORY_WEIGHTS[category]
                             ELSE EVENT_CATEGORY_WEIGHTS.other
       IN  RAdd(RMul(MathLog(attendance + 1), categoryWeight),
                EventScoreFrom(dayEvents, k + 1))

getEventImpact(date, events) ==
  LET dayEvents == SelectSeq(events, LAMBDA e : e.date = date)
  IN  IF Len(dayEvents) = 0 THEN R(0)
      ELSE LET totalScore == EventScoreFrom(dayEvents, 1)
           IN  RMin(R(10), RMax(R(0), RRoundTo(RDiv(totalScore, R(9)), 10)))

\* weather is <<>> (undefined) or <<record>>
computeWeatherImpact(weather, date) ==
  IF weather = <<>> THEN R(0)
  ELSE
    LET wd == weather[1]
        isWeekend == GetDay(date) = 0 \/ GetDay(date) = 6
        isSevere == wd.condition \in {"Thunderstorm", "Snow", "Extreme"}
        rainImpact ==
          IF RLt(Rat(7, 10), wd.rainProbability) /\ isWeekend THEN R(-3)
          ELSE IF RLt(Rat(5, 10), wd.rainProbability) THEN R(-1)
          ELSE R(0)
        impact ==
          IF /\ RLe(R(18), wd.temperature)
             /\ RLe(wd.temperature, R(28))
             /\ isWeekend
             /\ RLt(wd.rainProbability, Rat(3, 10))
          THEN RMax(rainImpact, R(2))
          ELSE rainImpact
    IN  IF isSevere THEN R(-5) ELSE RMax(R(-5), RMin(R(5), impact))

\* lines 426-428: the offset of date from `new Date()` at midnight
WeatherDayOffset(date, now) == date - now

\* reads the wall clock (now); weatherData[i] is undefined outside the list
getWeatherImpact(date, weatherData, now) ==
  IF Len(weatherData) = 0 THEN R(0)
  ELSE LET dayOffset == WeatherDayOffset(date, now)
           index == IntMin(dayOffset, Len(weatherData) - 1)
           weather == IF index < 0 THEN <<>> ELSE <<weatherData[index + 1]>>
       IN  computeWeatherImpact(weather, date)

RECURSIVE SumPricesFrom(_, _)
SumPricesFrom(competitorRates, k) ==
  IF k > Len(competitorRates) THEN R(0)
  ELSE RAdd(competitorRates[k].price, SumPricesFrom(competitorRates, k + 1))

getCompetitorImpact(hotelPrice, competitorRates) ==
  IF Len(competitorRates) = 0 THEN R(0)
  ELSE LET marketAvg == RDiv(SumPricesFrom(competitorRates, 1), R(Len(competitorRates)))
       IN  IF marketAvg = R(0) THEN R(0)
           ELSE LET diff == RDiv(RSub(marketAvg, hotelPrice), marketAvg)
                    score == RRoundTo(RMul(diff, R(25)), 10)
                IN  RMax(R(-5), RMin(R(5), score))

\* mutant: weather and competitor impacts summed without the +5 shift
ShiftedSum_MutNoShift(eventImpact, weatherImpact, competitorImpact) ==
  RAdd(RAdd(eventImpact, weatherImpact), competitorImpact)

\* lines 460-463: raw = eventImpact + (weatherImpact + 5) + (competitorImpact + 5)
ShiftedSum(eventImpact, weatherImpact, competitorImpact) ==
  LET weatherShifted == RAdd(weatherImpact, R(5))
      competitorShifted == RAdd(competitorImpact, R(5))
  IN  RAdd(RAdd(eventImpact, weatherShifted), competitorShifted)

\* mutant: the combined score is not clamped
ClampTotal_MutNoClamp(raw) == RRoundTo(raw, 10)

\* line 464
ClampTotal(raw) == RMax(R(0), RMin(R(20), RRoundTo(raw, 10)))

getExternalSignalScore(date, hotelPrice, competitorRates, weatherData, events, now) ==
  LET eventImpact == getEventImpact(date, events)
      weatherImpact == getWeatherImpact(date, weatherData, now)
      competitorImpact == getCompetitorImpact(hotelPrice, competitorRates)
      raw == ShiftedSum(eventImpact, weatherImpact, competitorImpact)
      totalScore == ClampTotal(raw)
  IN  [eventImpact |-> eventImpact,
       weatherImpact |-> weatherImpact,
       competitorImpact |-> competitorImpact,
       totalScore |-> totalScore,
       weatherAvailable |-> Len(weatherData) > 0,
       eventsAvailable |-> Len(events) > 0]

(***************************************************************************)
(* Inputs of getExternalSignalScore                                        *)
(***************************************************************************)
\* the clock starts on Saturday 2026-11-07; target dates run from the day
\* before to DaysAhead days after
ClockStart == 20764
DaysAhead == 2
MaxEvents == 4
MaxWeatherDays == 2
MaxTicks == 2

SignalDates == (ClockStart - 1)..(ClockStart + DaysAhead)

\* all sequences over S of length at most n
SeqsUpTo(S, n) == UNION {[1..k -> S] : k \in 0..n}

EventKinds ==
  { [name |-> "Expo", category |-> "Festival", estimatedAttendance |-> 1000000000,
     date |-> ClockStart],
    [name |-> "Gala", category |-> "gala", estimatedAttendance |-> -5,
     date |-> ClockStart],
    [name |-> "Meetup", category |-> "meetup", estimatedAttendance |-> 1000,
     date |-> ClockStart + 1] }

EventLists == SeqsUpTo(EventKinds, MaxEvents)

WeatherKinds ==
  { [temperature |-> R(10), rainProbability |-> Rat(9, 10), condition |-> "Thunderstorm"],
    [temperature |-> R(10), rainProbability |-> Rat(8, 10), condition |-> "Rain"],
    [temperature |-> R(22), rainProbability |-> Rat(1, 10), condition |-> "Clear"] }

WeatherLists == SeqsUpTo(WeatherKinds, MaxWeatherDays)

Competitor(price) == [competitor_name |-> "rival", price |-> R(price)]

\* (hotelPrice, competitorRates)
PriceSituations ==
  { <<R(100), <<>>>>,
    <<R(100), <<Competitor(0)>>>>,
    <<R(100), <<Competitor(100), Competitor(104)>>>>,
    <<R(100), <<Competitor(200)>>>>,
    <<R(150), <<Competitor(100), Competitor(140)>>>>,
    <<R(150), <<Competitor(-20)>>>> }

SignalArgs ==
  { [date |-> d, hotelPrice |-> ps[1], competitorRates |-> ps[2],
     weatherData |-> w, events |-> e] :
       d \in SignalDates, ps \in PriceSituations, w \in WeatherLists, e \in EventLists }

\* the argument sets of the repeated-call specification
ClockArgs ==
  { a \in SignalArgs : Len(a.events) <= 1 /\ Len(a.competitorRates) <= 1 }

(***************************************************************************)
(* Inputs of calculatePrice                                                *)
(***************************************************************************)
\* demand scores are enumerated in steps of 1/DemandSteps, from
\* -DemandOvershoot to 100 + DemandOvershoot
DemandSteps == 2
DemandOvershoot == 5

DemandScores ==
  {Rat(i, DemandSteps) :
     i \in (-(DemandOvershoot * DemandSteps))..((100 + DemandOvershoot) * DemandSteps)}

BasePrices == {R(0), R(10), R(101), R(120)}

\* projectedOccupancy: absent, below, at and above the thresholds
ProjectedOccupancies == {<<>>, <<R(90)>>, <<R(95)>>, <<R(98)>>, <<R(100)>>}

\* (floorMultiplier, ceilingMultiplier, saturationThreshold), <<>> = default
PriceBands ==
  { <<<<>>, <<>>, <<>>>>,
    <<<<Rat(84, 100)>>, <<Rat(125, 100)>>, <<>>>>,
    <<<<>>, <<>>, <<R(93)>>>> }

PricingConfigs ==
  { [basePrice |-> bp,
     floorMultiplier |-> band[1],
     ceilingMultiplier |-> band[2],
     minSpread |-> <<>>,
     maxSpread |-> <<>>,
     saturationThreshold |-> band[3],
     projectedOccupancy |-> po] :
       bp \in BasePrices, band \in PriceBands, po \in ProjectedOccupancies }

(***************************************************************************)
(* State machine.  A behaviour fixes the entry point and its arguments in  *)
(* the initial state (fn, args); the call action runs the function and     *)
(* stores what it returns in result.                                       *)
(***************************************************************************)
NoResult == [none |-> TRUE]

InitPrice ==
  /\ fn = "calculatePrice"
  /\ args \in [demandScore : DemandScores, config : PricingConfigs]
  /\ result = NoResult
  /\ pc = "ready"
  /\ today = 0
  /\ ProviderCold

CallCalculatePrice ==
  /\ pc = "ready"
  /\ fn = "calculatePrice"
  /\ result' = calculatePrice(args.demandScore, args.config)
  /\ pc' = "done"
  /\ UNCHANGED <<fn, args, today>>
  /\ UNCHANGED providerVars

NextPrice == CallCalculatePrice

SpecPrice == InitPrice /\ [][NextPrice]_vars

InitElasticity ==
  /\ fn = "calculateElasticity"
  /\ args \in [baseOccupancy : BaseOccupancies, recommendedPrice : RecommendedPrices,
               manualPrice : ManualPrices, config : ElasticityConfigs]
  /\ result = NoResult
  /\ pc = "ready"
  /\ today = 0
  /\ ProviderCold

CallCalculateElasticity ==
  /\ pc = "ready"
  /\ fn = "calculateElasticity"
  /\ result' = calculateElasticity(args.baseOccupancy, args.recommendedPrice,
                                   args.manualPrice, args.config)
  /\ pc' = "done"
  /\ UNCHANGED <<fn, args, today>>
  /\ UNCHANGED providerVars

NextElasticity == CallCalculateElasticity

SpecElasticity == InitElasticity /\ [][NextElasticity]_vars

InitDemand ==
  /\ fn = "calculateDemandScore"
  /\ args \in [date : DemandDates, dayOffset : DayOffsets, config : DemandConfigs]
  /\ result = NoResult
  /\ pc = "ready"
  /\ today = 0
  /\ ProviderCold

CallCalculateDemandScore ==
  /\ pc = "ready"
  /\ fn = "calculateDemandScore"
  /\ result' = calculateDemandScore(args.date, args.dayOffset, args.config)
  /\ pc' = "done"
  /\ UNCHANGED <<fn, args, today>>
  /\ UNCHANGED providerVars

NextDemand == CallCalculateDemandScore

SpecDemand == InitDemand /\ [][NextDemand]_vars

InitSignals ==
  /\ fn = "getExternalSignalScore"
  /\ args \in SignalArgs
  /\ result = NoResult
  /\ pc = "ready"
  /\ today = ClockStart
  /\ ProviderCold

CallGetExternalSignalScore ==
  /\ pc = "ready"
  /\ fn = "getExternalSignalScore"
  /\ result' = getExternalSignalScore(args.date, args.hotelPrice, args.competitorRates,
                                      args.weatherData, args.events, today)
  /\ pc' = "done"
  /\ UNCHANGED <<fn, args, today>>
  /\ UNCHANGED providerVars

NextSignals == CallGetExternalSignalScore

SpecSignals == InitSignals /\ [][NextSignals]_vars

\* the same call made again and again while the wall clock advances
InitClock ==
  /\ fn = "getExternalSignalScore"
  /\ args \in ClockArgs
  /\ result = NoResult
  /\ pc = "ready"
  /\ today = ClockStart
  /\ ProviderCold

\* midnight passes
Tick ==
  /\ today < ClockStart + MaxTicks
  /\ today' = today + 1
  /\ UNCHANGED <<fn, args, result, pc>>
  /\ UNCHANGED providerVars

CallAgain ==
  /\ fn = "getExternalSignalScore"
  /\ result' = getExternalSignalScore(args.date, args.hotelPrice, args.competitorRates,
                                      args.weatherData, args.events, today)
  /\ pc' = "done"
  /\ UNCHANGED <<fn, args, today>>
  /\ UNCHANGED providerVars

NextClock == Tick \/ CallAgain

SpecClock == InitClock /\ [][NextClock]_vars

(***************************************************************************)
(* Properties of calculateDemandScore (checked under SpecDemand)           *)
(***************************************************************************)
DemandDone == fn = "calculateDemandScore" /\ pc = "done"

\* the weight-weighted sum of the five component scores a call returned
WeightedSum(r) ==
  RAdd(RAdd(RAdd(RAdd(RMul(r.weights.weekdayAvg, r.components.weekdayAvgScore),
                      RMul(r.weights.trend7Day, r.components.trendScore)),
                 RMul(r.weights.seasonality30Day, r.components.seasonalityScore)),
            RMul(r.weights.eventStrength, r.components.eventScore)),
       RMul(r.weights.bookingPace, r.components.bookingPaceScore))

\* C1: demandScore = clamp(round(50 + (weightedSum - baseOccupancy*100)
\* + externalSignalScore), 0, 100), a missing externalSignalScore counting
\* as 0; so demandScore is in [0,100].
C1_DemandScoreRecentered ==
  DemandDone =>
    LET ext == IF args.config.externalSignalScore = <<>> THEN R(0)
               ELSE args.config.externalSignalScore[1]
        centred == RAdd(RAdd(R(50),
                             RSub(WeightedSum(result),
                                  RMul(args.config.baseOccupancy, R(100)))),
                        ext)
    IN  /\ result.demandScore = RClamp(RRound(centred), R(0), R(100))
        /\ result.externalSignalScore = ext
        /\ RLe(R(0), result.demandScore)
        /\ RLe(result.demandScore, R(100))

\* a call with an external signal whose score is strictly inside (0,100)
C1_WitnessInterior ==
  /\ DemandDone
  /\ args.config.externalSignalScore = <<R(10)>>
  /\ args.config.baseOccupancy = Rat(72, 100)
  /\ RLt(R(0), result.demandScore)
  /\ RLt(result.demandScore, R(100))

(***************************************************************************)
(* Properties of calculatePrice (checked under SpecPrice)                  *)
(***************************************************************************)
PriceDone == fn = "calculatePrice" /\ pc = "done"

\* the configuration values the call ran with
CfgFloor(config) == RMul(config.basePrice, OrElse(config.floorMultiplier, Rat(70, 100)))
CfgCeiling(config) == RMul(config.basePrice, OrElse(config.ceilingMultiplier, Rat(180, 100)))
CfgThreshold(config) == OrElse(config.saturationThreshold, R(95))
SaturationApplies(config) ==
  /\ config.projectedOccupancy # <<>>
  /\ RLt(CfgThreshold(config), config.projectedOccupancy[1])

\* C2: for basePrice >= 0 and floorMultiplier <= ceilingMultiplier the
\* recommended price lies between basePrice*floorMultiplier and
\* basePrice*ceilingMultiplier.
C2_PriceWithinFloorAndCeiling ==
  (/\ PriceDone
   /\ RLe(R(0), args.config.basePrice)
   /\ RLe(CfgFloor(args.config), CfgCeiling(args.config)))
  => /\ RLe(CfgFloor(args.config), result.recommendedPrice)
     /\ RLe(result.recommendedPrice, CfgCeiling(args.config))

\* C3: without saturation the tier is discount below 50, base on [50,70],
\* premium on (70,85] and surge above 85.
C3_TierBoundaries ==
  (PriceDone /\ ~SaturationApplies(args.config)) =>
    LET d == args.demandScore
    IN  result.pricingTier =
          IF RLt(d, R(50)) THEN "discount"
          ELSE IF RLe(d, R(70)) THEN "base"
          ELSE IF RLe(d, R(85)) THEN "premium"
          ELSE "surge"

C3_Witness85 ==
  /\ PriceDone
  /\ ~SaturationApplies(args.config)
  /\ args.demandScore = R(85)
  /\ result.pricingTier = "premium"

\* C4: without saturation and for demandScore in [0,100] the multiplier
\* stays inside the band of its tier and takes the band's end values at the
\* band's ends; basePrice 120 with demandScore 60 gives a price in
\* [114,126], demandScore 90 a multiplier in [1.30,1.4333] and a price
\* above 120.
C4_MultiplierBands ==
  (/\ PriceDone
   /\ ~SaturationApplies(args.config)
   /\ RLe(R(0), args.demandScore)
   /\ RLe(args.demandScore, R(100))) =>
    LET d == args.demandScore
        m == result.priceMultiplier
        In(lo, hi) == RLe(Rat(lo, 10000), m) /\ RLe(m, Rat(hi, 10000))
        unclamped == /\ args.config.floorMultiplier = <<>>
                     /\ args.config.ceilingMultiplier = <<>>
    IN  /\ RLt(d, R(50)) => In(8000, 9000)
        /\ (RLe(R(50), d) /\ RLe(d, R(70))) => In(9500, 10500)
        /\ (RLt(R(70), d) /\ RLe(d, R(85))) => In(11000, 12500)
        /\ RLt(R(85), d) => In(13000, 15000)
        /\ d = R(0) => m = Rat(80, 100)
        /\ d = R(50) => m = Rat(95, 100)
        /\ d = R(70) => m = Rat(105, 100)
        /\ d = R(85) => m = Rat(125, 100)
        /\ d = R(100) => m = Rat(150, 100)
        /\ (d = R(60) /\ args.config.basePrice = R(120) /\ unclamped) =>
             /\ RLe(R(114), result.recommendedPrice)
             /\ RLe(result.recommendedPrice, R(126))
        /\ (d = R(90) /\ args.config.basePrice = R(120) /\ unclamped) =>
             /\ In(13000, 14333)
             /\ RLt(R(120), result.recommendedPrice)

C4_WitnessScenarioB ==
  /\ PriceDone
  /\ ~SaturationApplies(args.config)
  /\ args.demandScore = R(90)
  /\ args.config.basePrice = R(120)
  /\ result.recommendedPrice = R(164)

\* C5: the call is saturated exactly when projectedOccupancy is supplied
\* and strictly above the threshold; then the boost is
\* (projectedOccupancy - threshold)/(100 - threshold) * 0.20 and multiplies
\* the tier multiplier by (1 + boost) (the returned fields carry three
\* decimals); otherwise boost 0 and the tier multiplier is untouched.
C5_SaturationOverride ==
  PriceDone =>
    LET cfg == args.config
        thr == CfgThreshold(cfg)
        sat == SaturationApplies(cfg)
        boost == IF sat
                 THEN RMul(RDiv(RSub(cfg.projectedOccupancy[1], thr), RSub(R(100), thr)),
                           Rat(20, 100))
                 ELSE R(0)
        tierMultiplier == demandToMultiplier(args.demandScore).multiplier
    IN  /\ result.isSaturated = sat
        /\ (result.pricingTier = "saturation") = sat
        /\ result.saturationBoost = RRoundTo(boost, 1000)
        /\ thr = R(95) => result.saturationBoost = boost
        /\ result.priceMultiplier = RRoundTo(RMul(tierMultiplier, RAdd(R(1), boost)), 1000)
        /\ (sat /\ cfg.projectedOccupancy = <<R(98)>> /\ thr = R(95)) =>
             result.saturationBoost = Rat(12, 100)

C5_WitnessScenarioC ==
  /\ PriceDone
  /\ args.config.projectedOccupancy = <<R(98)>>
  /\ CfgThreshold(args.config) = R(95)
  /\ result.isSaturated
  /\ result.pricingTier = "saturation"
  /\ result.saturationBoost = Rat(12, 100)

(***************************************************************************)
(* Properties of calculateElasticity (checked under SpecElasticity)        *)
(***************************************************************************)
ElasticityDone == fn = "calculateElasticity" /\ pc = "done"

\* C6: with the default configuration and recommendedPrice > 0, no manual
\* price between the recommended price and the one of this call projects a
\* lower occupancy than this call: projectedOccupancy is non-increasing in
\* manualPrice above recommendedPrice.
C6_ElasticityMonotone ==
  (/\ ElasticityDone
   /\ args.config = DefaultElasticityConfig
   /\ RLt(R(0), args.recommendedPrice)
   /\ RLe(args.recommendedPrice, args.manualPrice)) =>
    \A p1 \in ManualPrices :
      (RLe(args.recommendedPrice, p1) /\ RLe(p1, args.manualPrice)) =>
        RLe(result.projectedOccupancy,
            calculateElasticity(args.baseOccupancy, args.recommendedPrice,
                                p1, args.config).projectedOccupancy)

\* a price above the recommended one that strictly lowers the occupancy
C6_WitnessLowerOccupancy ==
  /\ ElasticityDone
  /\ args.config = DefaultElasticityConfig
  /\ args.baseOccupancy = R(72)
  /\ args.recommendedPrice = R(100)
  /\ args.manualPrice = R(150)
  /\ result.projectedOccupancy = R(62)

\* C7: in non-linear mode with recommendedPrice > 0 the occupancy change is
\* -sign(p) * k * p^2 points for p = (manual - recommended)/recommended*100
\* (returned with one decimal); with k = 0.004 and recommendedPrice 100,
\* manualPrice 110 gives -0.4 and manualPrice 130 gives -3.6.
C7_QuadraticResponse ==
  (/\ ElasticityDone
   /\ result.isNonLinear
   /\ RLt(R(0), args.recommendedPrice)) =>
    LET p == RDiv(RMul(RSub(args.manualPrice, args.recommendedPrice), R(100)),
                  args.recommendedPrice)
        k == OrElse(args.config.elasticityK, Rat(4, 1000))
        sgn == IF RLt(R(0), p) THEN R(1) ELSE IF RLt(p, R(0)) THEN R(-1) ELSE R(0)
        defaultK == args.config.elasticityK = <<>>
    IN  /\ result.occupancyChange = RRoundTo(RSub(R(0), RMul(sgn, RMul(k, RMul(p, p)))), 10)
        /\ (defaultK /\ args.recommendedPrice = R(100) /\ args.manualPrice = R(110)) =>
             result.occupancyChange = Rat(-4, 10)
        /\ (defaultK /\ args.recommendedPrice = R(100) /\ args.manualPrice = R(130)) =>
             result.occupancyChange = Rat(-36, 10)

C7_WitnessScenarioD ==
  /\ ElasticityDone
  /\ result.isNonLinear
  /\ args.config = DefaultElasticityConfig
  /\ args.recommendedPrice = R(100)
  /\ args.manualPrice = R(110)
  /\ result.occupancyChange = Rat(-4, 10)

(***************************************************************************)
(* Properties of getExternalSignalScore (SpecSignals, SpecClock)           *)
(***************************************************************************)
SignalsDone == fn = "getExternalSignalScore" /\ pc = "done"

Between(x, lo, hi) == RLe(R(lo), x) /\ RLe(x, R(hi))

\* C8: eventImpact in [0,10], weatherImpact and competitorImpact in [-5,5],
\* totalScore in [0,20], for every input.
C8_SignalRanges ==
  SignalsDone =>
    /\ Between(result.eventImpact, 0, 10)
    /\ Between(result.weatherImpact, -5, 5)
    /\ Between(result.competitorImpact, -5, 5)
    /\ Between(result.totalScore, 0, 20)

\* the raw sum exceeds 20 and the total is clamped
C8_WitnessClampedAt20 ==
  /\ SignalsDone
  /\ result.eventImpact = R(10)
  /\ result.competitorImpact = R(5)
  /\ result.weatherImpact = R(2)
  /\ result.totalScore = R(20)

\* C9: a missing provider is neutral: no weather gives weatherImpact 0 and
\* weatherAvailable false, no events eventImpact 0 and eventsAvailable
\* false, no competitor rates (or market average 0) competitorImpact 0;
\* totalScore = clamp(eventImpact + (weatherImpact+5) + (competitorImpact+5),
\* 0, 20), which is 10 with all three missing.
C9_MissingProviderNeutral ==
  SignalsDone =>
    /\ args.weatherData = <<>> =>
         (result.weatherImpact = R(0) /\ ~result.weatherAvailable)
    /\ args.events = <<>> =>
         (result.eventImpact = R(0) /\ ~result.eventsAvailable)
    /\ (args.competitorRates = <<>> \/ args.competitorRates = <<Competitor(0)>>) =>
         result.competitorImpact = R(0)
    /\ result.totalScore =
         RClamp(RAdd(RAdd(result.eventImpact, RAdd(result.weatherImpact, R(5))),
                     RAdd(result.competitorImpact, R(5))),
                R(0), R(20))
    /\ (args.weatherData = <<>> /\ args.events = <<>> /\ args.competitorRates = <<>>) =>
         result.totalScore = R(10)

C9_WitnessAllMissing ==
  /\ SignalsDone
  /\ args.weatherData = <<>>
  /\ args.events = <<>>
  /\ args.competitorRates = <<>>
  /\ result.totalScore = R(10)

\* C10: a call repeated with the same arguments returns the same
\* weatherImpact and totalScore, whatever the wall clock shows.
C10_SameArgumentsSameResult ==
  [][(pc = "done" /\ pc' = "done" /\ args' = args) =>
       /\ result'.weatherImpact = result.weatherImpact
       /\ result'.totalScore = result.totalScore]_vars

(***************************************************************************)
(* Weight policy of calculateDemandScore (checked under SpecDemand)        *)
(***************************************************************************)
\* the sum of the five weights a call used and returned
WeightTotal(w) ==
  RAdd(RAdd(RAdd(RAdd(w.weekdayAvg, w.trend7Day), w.seasonality30Day),
            w.eventStrength),
       w.bookingPace)

\* C11: the weights calculateDemandScore uses and reports sum to 1.0, also
\* when the weights of the configuration do not (there is no rejection in
\* the function: every call returns a result).
C11_WeightsSumToOne ==
  DemandDone => WeightTotal(result.weights) = R(1)

(***************************************************************************)
(* Evaluation order.  Let(e, F) is F applied to the value of e: the        *)
(* expression e is evaluated once, as a JavaScript const is.               *)
(***************************************************************************)
Let(e, F(_)) == CHOOSE r \in {F(v) : v \in {e}} : TRUE

(***************************************************************************)
(* index.ts (historicalDemandModel): stdDev, computeHistoricalStats.       *)
(* A HistoricalRecord is [date, rooms_available, rooms_sold,               *)
(* average_daily_rate, cancellations] with integer fields; date is the day *)
(* number of the ISO date string, so that localeCompare on the strings is  *)
(* the order of the day numbers, and getDay is taken in UTC.               *)
(***************************************************************************)
\* r.rooms_available > 0 ? r.rooms_sold / r.rooms_available : 0
OccupancyOf(r) ==
  IF r.rooms_available > 0 THEN Rat(r.rooms_sold, r.rooms_available) ELSE R(0)

\* Array.prototype.sort with (a, b) => a.date.localeCompare(b.date) is a
\* stable sort: records[i] moves to the position that counts the records
\* of an earlier date and the records of the same date listed before it
SortedPosition(records, i) ==
  1 + Cardinality({j \in 1..Len(records) :
                     \/ records[j].date < records[i].date
                     \/ records[j].date = records[i].date /\ j < i})

SortByDate(records) ==
  [p \in 1..Len(records) |->
     records[CHOOSE i \in 1..Len(records) : SortedPosition(records, i) = p]]

\* mutant: the array itself is sorted, no copy is taken
SortedCopy_MutInPlace(records) ==
  [sorted |-> SortByDate(records), records |-> SortByDate(records)]

\* [...records].sort(byDate): the sorted copy, and what the caller's array
\* holds afterwards
SortedCopy(records) ==
  [sorted |-> SortByDate(records), records |-> records]

\* values.reduce((s, v) => s + v, 0) from values[k] on, s being the sum so far
RECURSIVE RSumFrom(_, _, _)
RSumFrom(values, k, s) ==
  IF k > Len(values) THEN s
  ELSE Let(RAdd(s, values[k]), LAMBDA next : RSumFrom(values, k + 1, next))

RSum(values) == Let(values, LAMBDA vs : RSumFrom(vs, 1, R(0)))

\* array.slice(-k): the last k elements, the whole array when it is shorter
SliceLast(s, k) == SubSeq(s, IntMax(1, Len(s) - k + 1), Len(s))

\* array.slice(-from, -to) with from > to > 0
SliceBetween(s, from, to) == SubSeq(s, IntMax(1, Len(s) - from + 1), Len(s) - to)

MapOccupancy(records) == [k \in 1..Len(records) |-> OccupancyOf(records[k])]

\* floor(x * f[1] * ... * f[Len(f)]) for 0 <= x, one factor at a time
RECURSIVE FloorScaled(_, _, _, _)
FloorScaled(whole, rem, d, factors) ==
  IF factors = <<>> THEN whole
  ELSE Let(<<whole * factors[1] + (rem * factors[1]) \div d, (rem * factors[1]) % d>>,
           LAMBDA wr : FloorScaled(wr[1], wr[2], d, Tail(factors)))

\* Math.round(Math.sqrt(v) * 1000) for v >= 0: the k with
\* (2k - 1)^2 <= 4 * 10^6 * v < (2k + 1)^2
RoundSqrtThousandths(v) ==
  Let(FloorScaled(v.n \div v.d, v.n % v.d, v.d, <<100, 100, 100, 4>>),
      LAMBDA q : CHOOSE k \in 0..3000 :
                   /\ (k = 0 \/ (2 * k - 1) * (2 * k - 1) <= q)
                   /\ q < (2 * k + 1) * (2 * k + 1))

\* the variance of stdDev (lines 69-70)
VarianceOf(values, mean) ==
  RDiv(RSum([k \in 1..Len(values) |->
               RMul(RSub(values[k], mean), RSub(values[k], mean))]),
       R(Len(values) - 1))

\* stdDev rounded as computeHistoricalStats rounds it (line 150)
StdDevThousandths(values) ==
  IF Len(values) < 2 THEN R(0)
  ELSE Let(RDiv(RSum(values), R(Len(values))), LAMBDA mean :
       Let(VarianceOf(values, mean), LAMBDA variance :
       Rat(RoundSqrtThousandths(variance), 1000)))

\* the mean occupancy of the records that fall on weekday d, or dflt when
\* there is none
WeekdayMean(records, d, dflt) ==
  LET bucket == SelectSeq(records, LAMBDA r : GetDay(r.date) = d)
  IN  IF Len(bucket) > 0
      THEN RDiv(RSum(MapOccupancy(bucket)), R(Len(bucket)))
      ELSE dflt

\* records.reduce((s, r) => s + occupancy(r), 0) / n
MeanOccupancyOver(records, n) == RDiv(RSum(MapOccupancy(records)), R(n))

\* mutant: the multipliers of an empty history are 0, as its averages are
EmptyHistoricalStats_MutZeroMultipliers ==
  [hasData |-> FALSE,
   totalRecords |-> 0,
   avgOccupancy |-> R(0),
   weekdayAvgOccupancy |-> [d \in 0..6 |-> R(0)],
   rolling7DayTrend |-> R(0),
   rolling30DaySeasonality |-> R(0),
   recentMomentum14Day |-> R(0),
   avgADR |-> R(0),
   totalRevenue |-> R(0),
   occupancyVolatility |-> R(0),
   weekdayBookingPace |-> [d \in 0..6 |-> R(0)],
   dataRangeStart |-> <<>>,
   dataRangeEnd |-> <<>>]

\* lines 78-95: the statistics of an empty or missing record list
EmptyHistoricalStats ==
  [hasData |-> FALSE,
   totalRecords |-> 0,
   avgOccupancy |-> R(0),
   weekdayAvgOccupancy |-> [d \in 0..6 |-> R(0)],
   rolling7DayTrend |-> R(1),
   rolling30DaySeasonality |-> R(1),
   recentMomentum14Day |-> R(1),
   avgADR |-> R(0),
   totalRevenue |-> R(0),
   occupancyVolatility |-> R(0),
   weekdayBookingPace |-> [d \in 0..6 |-> R(0)],
   dataRangeStart |-> <<>>,
   dataRangeEnd |-> <<>>]

\* mutant: a window compared with an empty past counts as a collapse
RatioOrNeutral_MutZero(numerator, denominator) ==
  IF RLt(R(0), denominator) THEN RDiv(numerator, denominator) ELSE R(0)

\* denominator > 0 ? numerator / denominator : 1.0 (lines 126, 135, 144)
RatioOrNeutral(numerator, denominator) ==
  IF RLt(R(0), denominator) THEN RDiv(numerator, denominator) ELSE R(1)

\* lines 99-170 of computeHistoricalStats, from the sorted copy, its
\* occupancies and their mean
StatsOfSorted(sorted, occupancies, avgOccupancy) ==
  LET n == Len(sorted)
      weekdayAvgOccupancy == [d \in 0..6 |-> WeekdayMean(sorted, d, avgOccupancy)]
      rolling7DayTrend ==
        IF n >= 14
        THEN LET avgLast7 == MeanOccupancyOver(SliceLast(sorted, 7), 7)
                 avgPrev7 == MeanOccupancyOver(SliceBetween(sorted, 14, 7), 7)
             IN  RClamp(RatioOrNeutral(avgLast7, avgPrev7), Rat(8, 10), Rat(12, 10))
        ELSE R(1)
      rolling30DaySeasonality ==
        IF n >= 30
        THEN LET avgLast30 == MeanOccupancyOver(SliceLast(sorted, 30), 30)
             IN  RClamp(RatioOrNeutral(avgLast30, avgOccupancy), Rat(7, 10), Rat(13, 10))
        ELSE R(1)
      recentMomentum14Day ==
        IF n >= 14
        THEN LET avgLast14 == MeanOccupancyOver(SliceLast(sorted, 14), 14)
             IN  RClamp(RatioOrNeutral(avgLast14, avgOccupancy),
                        Rat(85, 100), Rat(115, 100))
        ELSE R(1)
      occupancyVolatility == StdDevThousandths(SliceLast(occupancies, 30))
      weekdayBookingPace ==
        IF n >= 28
        THEN [d \in 0..6 |->
                LET recentAvg == WeekdayMean(SliceLast(sorted, 14), d, R(0))
                    prevAvg == WeekdayMean(SliceBetween(sorted, 28, 14), d, R(0))
                IN  IF RLt(R(0), prevAvg)
                    THEN RClamp(RRoundTo(RDiv(RSub(recentAvg, prevAvg), prevAvg), 100),
                                R(-1), R(1))
                    ELSE R(0)]
        ELSE [d \in 0..6 |-> R(0)]
      avgADR ==
        RDiv(RSum([k \in 1..n |-> R(sorted[k].average_daily_rate)]), R(n))
      totalRevenue ==
        RSum([k \in 1..n |-> R(sorted[k].rooms_sold * sorted[k].average_daily_rate)])
  IN  [hasData |-> TRUE,
       totalRecords |-> n,
       avgOccupancy |-> RRoundTo(avgOccupancy, 1000),
       weekdayAvgOccupancy |-> weekdayAvgOccupancy,
       rolling7DayTrend |-> RRoundTo(rolling7DayTrend, 1000),
       rolling30DaySeasonality |-> RRoundTo(rolling30DaySeasonality, 1000),
       recentMomentum14Day |-> RRoundTo(recentMomentum14Day, 1000),
       avgADR |-> RRoundTo(avgADR, 100),
       totalRevenue |-> RRound(totalRevenue),
       occupancyVolatility |-> occupancyVolatility,
       weekdayBookingPace |-> weekdayBookingPace,
       dataRangeStart |-> <<sorted[1].date>>,
       dataRangeEnd |-> <<sorted[n].date>>]

\* the record list is an optional argument: <<>> when it is null or
\* undefined, <<records>> otherwise
computeHistoricalStats(optRecords) ==
  IF optRecords = <<>> \/ Len(optRecords[1]) = 0 THEN EmptyHistoricalStats
  ELSE Let(SortedCopy(optRecords[1]).sorted, LAMBDA sorted :
       Let(MapOccupancy(sorted), LAMBDA occupancies :
       Let(RDiv(RSum(occupancies), R(Len(occupancies))), LAMBDA avgOccupancy :
       StatsOfSorted(sorted, occupancies, avgOccupancy))))

(***************************************************************************)
(* forecastAccuracy.ts: calculateForecastAccuracy.  A ForecastRecord is    *)
(* [date, predictedOccupancy, actualOccupancy] with integer occupancies.   *)
(***************************************************************************)
\* lines 55-66: the error record of one day
DailyErrorOf(r) ==
  LET absoluteError == R(Abs(r.predictedOccupancy - r.actualOccupancy))
      percentageError ==
        IF r.actualOccupancy > 0
        THEN RMul(RDiv(absoluteError, R(r.actualOccupancy)), R(100))
        ELSE R(0)
  IN  [date |-> r.date,
       predicted |-> r.predictedOccupancy,
       actual |-> r.actualOccupancy,
       absoluteError |-> RRoundTo(absoluteError, 10),
       percentageError |-> RRoundTo(percentageError, 10)]

\* Math.round((sum / length) * 10) / 10 over one field of the daily errors
MeanToTenths(values) == RRoundTo(RDiv(RSum(values), R(Len(values))), 10)

\* Math.max(0, Math.min(100, Math.round((100 - mape) * 10) / 10))
AccuracyOf(mape) == RClamp(RRoundTo(RSub(R(100), mape), 10), R(0), R(100))

\* mutant: the rolling window is the first 30 days
Last30_MutFirst(errors) == SubSeq(errors, 1, IntMin(30, Len(errors)))

\* dailyErrors.slice(-30) (line 80)
Last30(errors) == SliceLast(errors, 30)

\* lines 68-100, from the error records of the sorted copy
AccuracyOfErrors(dailyErrors, absErrors, pctErrors) ==
  LET mape == MeanToTenths(pctErrors)
      last30 == Last30(dailyErrors)
      rolling30Mae ==
        IF Len(last30) > 0 THEN MeanToTenths(Last30(absErrors)) ELSE R(0)
      rolling30Mape ==
        IF Len(last30) > 0 THEN MeanToTenths(Last30(pctErrors)) ELSE R(0)
  IN  [mae |-> MeanToTenths(absErrors),
       mape |-> mape,
       accuracy |-> AccuracyOf(mape),
       totalDays |-> Len(dailyErrors),
       rolling30 |-> [mae |-> rolling30Mae,
                      mape |-> rolling30Mape,
                      accuracy |-> AccuracyOf(rolling30Mape),
                      days |-> Len(last30)],
       dailyErrors |-> dailyErrors]

calculateForecastAccuracy(records) ==
  IF Len(records) = 0
  THEN [mae |-> R(0), mape |-> R(0), accuracy |-> R(100), totalDays |-> 0,
        rolling30 |-> [mae |-> R(0), mape |-> R(0), accuracy |-> R(100), days |-> 0],
        dailyErrors |-> <<>>]
  ELSE Let(SortedCopy(records).sorted, LAMBDA sorted :
       Let([k \in 1..Len(sorted) |-> DailyErrorOf(sorted[k])], LAMBDA dailyErrors :
       AccuracyOfErrors(dailyErrors,
                        [k \in 1..Len(dailyErrors) |-> dailyErrors[k].absoluteError],
                        [k \in 1..Len(dailyErrors) |-> dailyErrors[k].percentageError])))

(***************************************************************************)
(* confidenceModel.ts: calculateConfidence.  A JavaScript number that is   *)
(* not a number is the value NaN below; Math.round, Math.min and Math.max  *)
(* return NaN when given NaN.                                              *)
(***************************************************************************)
\* Math.exp(-m / 30), tabulated to four decimals for m = 0..70
ExpNegThirtieths ==
  << 10000, 9672, 9355, 9048, 8752, 8465, 8187, 7919, 7659, 7408, 7165, 6930,
     6703, 6483, 6271, 6065, 5866, 5674, 5488, 5308, 5134, 4966, 4803, 4646,
     4493, 4346, 4204, 4066, 3932, 3803, 3679, 3558, 3442, 3329, 3220, 3114,
     3012, 2913, 2818, 2725, 2636, 2550, 2466, 2385, 2307, 2231, 2158, 2087,
     2019, 1953, 1889, 1827, 1767, 1709, 1653, 1599, 1546, 1496, 1447, 1399,
     1353, 1309, 1266, 1225, 1184, 1146, 1108, 1072, 1037, 1003, 970 >>

\* Math.exp(-1.0 * dayOffset / horizon): 0 / 0 is NaN, -x / 0 is -Infinity
\* and Math.exp(-Infinity) is 0
calcDataCompleteness(dayOffset, horizon) ==
  IF horizon = 0
  THEN IF dayOffset = 0 THEN NaN ELSE R(0)
  ELSE Rat(ExpNegThirtieths[(30 * dayOffset) \div horizon + 1], 10000)

calcEventSignalStrength(hasEvent, eventMultiplier) ==
  IF ~hasEvent THEN Rat(60, 100)
  ELSE RMin(R(1), RAdd(Rat(70, 100), RMul(RSub(eventMultiplier, R(1)), R(2))))

calcTrendConsistency(trendFactor) ==
  LET d == RSub(trendFactor, R(1))
      deviation == IF RLt(d, R(0)) THEN RSub(R(0), d) ELSE d
  IN  IF IsNaN(trendFactor) THEN NaN
      ELSE RMax(Rat(3, 10), RSub(R(1), RMul(deviation, R(5))))

calcDataVolumeScore(dataPoints, minForFull) ==
  IF dataPoints = 0 THEN Rat(2, 10)
  ELSE IF dataPoints >= minForFull THEN R(1)
  ELSE RMin(R(1), RAdd(Rat(2, 10),
                       RDiv(RMul(Rat(8, 10), MathLog(1 + dataPoints)),
                            MathLog(1 + minForFull))))

calcVolatilityScore(volatility) ==
  IF volatility = <<>> THEN Rat(65, 100)
  ELSE RMax(Rat(30, 100), RSub(R(1), RMul(volatility[1], Rat(35, 10))))

\* Math.round(x * 100) / 100
RoundHundredths(x) == IF IsNaN(x) THEN NaN ELSE RRoundTo(x, 100)

\* an omitted config argument is NoConfidenceConfig (config = {})
NoConfidenceConfig ==
  [historicalStability |-> <<>>, forecastHorizon |-> <<>>, dataPointCount |-> <<>>,
   minDataForFullConfidence |-> <<>>, occupancyVolatility |-> <<>>]

calculateConfidence(dayOffset, hasEvent, eventMultiplier, trendFactor, config) ==
  LET historicalStability == OrElse(config.historicalStability, Rat(75, 100))
      forecastHorizon == OrElse(config.forecastHorizon, 30)
      dataPointCount == OrElse(config.dataPointCount, 0)
      minDataForFullConfidence == OrElse(config.minDataForFullConfidence, 90)
      dataCompleteness == calcDataCompleteness(dayOffset, forecastHorizon)
      eventSignalStrength == calcEventSignalStrength(hasEvent, eventMultiplier)
      trendConsistency == calcTrendConsistency(trendFactor)
      dataVolumeScore == calcDataVolumeScore(dataPointCount, minDataForFullConfidence)
      volatilityScore == calcVolatilityScore(config.occupancyVolatility)
      weightedScore ==
        IF IsNaN(dataCompleteness) \/ IsNaN(trendConsistency) THEN NaN
        ELSE RAdd(RAdd(RAdd(RAdd(RAdd(RMul(dataCompleteness, Rat(25, 100)),
                                      RMul(eventSignalStrength, Rat(10, 100))),
                                 RMul(historicalStability, Rat(15, 100))),
                            RMul(trendConsistency, Rat(10, 100))),
                       RMul(dataVolumeScore, Rat(25, 100))),
                  RMul(volatilityScore, Rat(15, 100)))
      confidence ==
        IF IsNaN(weightedScore) THEN NaN
        ELSE RMax(R(0), RMin(R(100), RRound(RMul(weightedScore, R(100)))))
  IN  [confidence |-> confidence,
       dataCompleteness |-> RoundHundredths(dataCompleteness),
       eventSignalStrength |-> RoundHundredths(eventSignalStrength),
       historicalStability |-> historicalStability,
       trendConsistency |-> RoundHundredths(trendConsistency),
       dataVolumeScore |-> RoundHundredths(dataVolumeScore),
       volatilityScore |-> RoundHundredths(volatilityScore)]

(***************************************************************************)
(* marketSignals.ts (backtestEngine): runBacktest                          *)
(***************************************************************************)
\* mutant: the window of recent records includes the day itself
RecentRecords_MutIncludesDay(sorted, i) == SubSeq(sorted, IntMax(1, i - 14), i)

\* lines 392-393: sorted.slice(Math.max(0, i - 14), i) for the i-th record
\* (counting from 1): the at most 14 records before it
RecentRecords(sorted, i) == SubSeq(sorted, IntMax(1, i - 14), i - 1)

\* lines 398-404.  With baseOccupancy 0 the quotient is Infinity when the
\* recent mean is positive, which the clamp turns into 1.15, and 0 / 0 = NaN
\* when the recent mean is 0, which Math.min and Math.max hand on
TrendMomentumOf(recentRecords, baseOccupancy) ==
  IF Len(recentRecords) >= 3
  THEN LET recentAvgOcc ==
             RDiv(RSum(MapOccupancy(recentRecords)), R(Len(recentRecords)))
       IN  IF baseOccupancy = R(0)
           THEN IF recentAvgOcc = R(0) THEN NaN ELSE Rat(115, 100)
           ELSE RMax(Rat(85, 100), RMin(Rat(115, 100), RDiv(recentAvgOcc, baseOccupancy)))
  ELSE R(1)

\* mutant: a tie counts as a win
IsWin_MutTie(revenueDifference) == RLe(R(0), revenueDifference)

\* line 454: isWin: revenueDifference > 0
IsWin(revenueDifference) == RLt(R(0), revenueDifference)

\* { basePrice: config.basePrice }
BarePricingConfig(basePrice) ==
  [basePrice |-> basePrice, floorMultiplier |-> <<>>, ceilingMultiplier |-> <<>>,
   minSpread |-> <<>>, maxSpread |-> <<>>, saturationThreshold |-> <<>>,
   projectedOccupancy |-> <<>>]

\* lines 425-460: the result of the day from the record and the three models
DayOf(rec, demand, pricing, confidence) ==
  LET actualOccupancy ==
        IF rec.rooms_available > 0
        THEN RRound(RMul(Rat(rec.rooms_sold, rec.rooms_available), R(100)))
        ELSE R(0)
      actualRevenue == R(rec.rooms_sold * rec.average_daily_rate)
      aiProjectedOccupancy == demand.demandScore
      aiRoomsSold ==
        IF IsNaN(aiProjectedOccupancy) THEN NaN
        ELSE RRound(RMul(RDiv(aiProjectedOccupancy, R(100)), R(rec.rooms_available)))
      aiProjectedRevenue ==
        IF IsNaN(aiRoomsSold) \/ IsNaN(pricing.recommendedPrice) THEN NaN
        ELSE RMul(aiRoomsSold, pricing.recommendedPrice)
      revenueDifference ==
        IF IsNaN(aiProjectedRevenue) THEN NaN
        ELSE RSub(aiProjectedRevenue, actualRevenue)
      d == RSub(demand.demandScore, actualOccupancy)
  IN  [date |-> rec.date,
       actualOccupancy |-> actualOccupancy,
       actualADR |-> R(rec.average_daily_rate),
       actualRevenue |-> actualRevenue,
       actualRoomsSold |-> rec.rooms_sold,
       aiDemandScore |-> demand.demandScore,
       aiRecommendedPrice |-> pricing.recommendedPrice,
       aiProjectedOccupancy |-> aiProjectedOccupancy,
       aiProjectedRevenue |-> aiProjectedRevenue,
       aiConfidence |-> confidence.confidence,
       aiPricingTier |-> pricing.pricingTier,
       revenueDifference |-> revenueDifference,
       isWin |-> ~IsNaN(revenueDifference) /\ IsWin(revenueDifference),
       seasonalityFactor |-> demand.seasonalityFactor,
       weekdayFactor |-> demand.weekdayFactor,
       eventMultiplier |-> demand.eventMultiplier,
       trendFactor |-> demand.trendFactor,
       absError |-> IF IsNaN(demand.demandScore) THEN NaN
                    ELSE IF RLt(d, R(0)) THEN RSub(R(0), d) ELSE d]

\* lines 403-420: the demand -> price -> confidence chain of the backtest
BacktestChain(date, trendMomentum, config) ==
  Let(calculateDemandScore(date, 0,
        [BareDemandConfig(config.baseOccupancy) EXCEPT !.trendMomentum = <<trendMomentum>>]),
      LAMBDA demand :
        [demand |-> demand,
         pricing |-> calculatePrice(demand.demandScore, BarePricingConfig(config.basePrice)),
         confidence |->
           calculateConfidence(0, demand.event # <<>>, demand.eventMultiplier,
                               demand.trendFactor, NoConfidenceConfig)])

\* the body of the loop of runBacktest (lines 388-460) for sorted[i]
BacktestDay(sorted, i, config) ==
  Let(TrendMomentumOf(RecentRecords(sorted, i), config.baseOccupancy),
      LAMBDA trendMomentum :
  Let(BacktestChain(sorted[i].date, trendMomentum, config), LAMBDA chain :
  DayOf(sorted[i], chain.demand, chain.pricing, chain.confidence)))

\* the fields of a BacktestDayResult (absError is the loop's local variable)
DayResultOf(day) ==
  [f \in DOMAIN day \ {"absError"} |-> day[f]]

\* reduce((s, d) => s + d.x, 0): NaN as soon as one term is NaN
NSum(values) ==
  IF \E i \in DOMAIN values : IsNaN(values[i]) THEN NaN ELSE RSum(values)

\* lines 458-478: the summary of the days of the loop
SummaryOfDays(days) ==
  LET n == Len(days)
      dailyResults == [i \in 1..n |-> DayResultOf(days[i])]
      totalAbsError == NSum([i \in 1..n |-> days[i].absError])
      actualTotalRevenue == RSum([i \in 1..n |-> days[i].actualRevenue])
      aiTotalRevenue == NSum([i \in 1..n |-> days[i].aiProjectedRevenue])
      revenueDifference ==
        IF IsNaN(aiTotalRevenue) THEN NaN ELSE RSub(aiTotalRevenue, actualTotalRevenue)
      revenueUpliftPercent ==
        IF RLt(R(0), actualTotalRevenue)
        THEN IF IsNaN(revenueDifference) THEN NaN
             ELSE RDiv(RRound(RMul(RDiv(revenueDifference, actualTotalRevenue), R(1000))),
                       R(10))
        ELSE R(0)
      sumConfidence == NSum([i \in 1..n |-> days[i].aiConfidence])
  IN  [totalDays |-> n,
       winDays |-> Len(SelectSeq(days, LAMBDA d : d.isWin)),
       lossDays |-> Len(SelectSeq(days, LAMBDA d : ~d.isWin)),
       actualTotalRevenue |-> actualTotalRevenue,
       aiTotalRevenue |-> aiTotalRevenue,
       revenueDifference |-> revenueDifference,
       revenueUpliftPercent |-> revenueUpliftPercent,
       meanAbsoluteError |->
         IF n = 0 THEN R(0)
         ELSE IF IsNaN(totalAbsError) THEN NaN
         ELSE RRoundTo(RDiv(totalAbsError, R(n)), 10),
       avgConfidence |->
         IF n = 0 THEN R(0)
         ELSE IF IsNaN(sumConfidence) THEN NaN
         ELSE RRound(RDiv(sumConfidence, R(n))),
       dailyResults |-> dailyResults]

runBacktest(records, config) ==
  Let(SortedCopy(records).sorted, LAMBDA sorted :
  Let([i \in 1..Len(sorted) |-> BacktestDay(sorted, i, config)], LAMBDA days :
  SummaryOfDays(days)))

(***************************************************************************)
(* revenueSimulator.ts: simulateRevenue                                    *)
(***************************************************************************)
\* Math.round((occupancy / 100) * totalRooms)
RoomsSoldAt(occupancy, totalRooms) ==
  RRound(RMul(RDiv(occupancy, R(100)), totalRooms))

\* mutant: the loss of a manual price above the recommended one is the
\* revenue the manual price adds
OverpricingLossOf_MutSign(manualPrice, recommendedPrice, aiRevenue, manualRevenue) ==
  IF RLt(recommendedPrice, manualPrice) THEN RSub(manualRevenue, aiRevenue) ELSE R(0)

\* lines 93-95, before the floor at 0 of the return statement
OverpricingLossOf(manualPrice, recommendedPrice, aiRevenue, manualRevenue) ==
  IF RLt(recommendedPrice, manualPrice) THEN RSub(aiRevenue, manualRevenue) ELSE R(0)

\* lines 90-92, before the floor at 0 of the return statement
UnderpricingLossOf(manualPrice, recommendedPrice, aiRevenue, manualRevenue) ==
  IF RLt(manualPrice, recommendedPrice) THEN RSub(aiRevenue, manualRevenue) ELSE R(0)

\* an omitted elasticityConfig is DefaultElasticityConfig
simulateRevenue(input) ==
  LET aiOccupancy == input.predictedOccupancy
      aiRoomsSold == RoomsSoldAt(aiOccupancy, input.totalRooms)
      aiRevenue == RMul(aiRoomsSold, input.recommendedPrice)
      staticElasticity ==
        calculateElasticity(input.predictedOccupancy, input.recommendedPrice,
                            input.staticPrice, input.elasticityConfig)
      staticOccupancy == staticElasticity.projectedOccupancy
      staticRoomsSold == RoomsSoldAt(staticOccupancy, input.totalRooms)
      staticRevenue == RMul(staticRoomsSold, input.staticPrice)
      manualElasticity ==
        calculateElasticity(input.predictedOccupancy, input.recommendedPrice,
                            input.manualPrice, input.elasticityConfig)
      manualOccupancy == manualElasticity.projectedOccupancy
      manualRoomsSold == RoomsSoldAt(manualOccupancy, input.totalRooms)
      manualRevenue == RMul(manualRoomsSold, input.manualPrice)
      revenueLiftPercent ==
        IF RLt(R(0), staticRevenue)
        THEN RDiv(RRound(RMul(RDiv(RSub(aiRevenue, staticRevenue), staticRevenue),
                              R(1000))),
                  R(10))
        ELSE R(0)
      underpricingLoss ==
        UnderpricingLossOf(input.manualPrice, input.recommendedPrice,
                           aiRevenue, manualRevenue)
      overpricingLoss ==
        OverpricingLossOf(input.manualPrice, input.recommendedPrice,
                          aiRevenue, manualRevenue)
  IN  [aiOccupancy |-> aiOccupancy,
       aiRoomsSold |-> aiRoomsSold,
       aiRevenue |-> aiRevenue,
       staticOccupancy |-> staticOccupancy,
       staticRoomsSold |-> staticRoomsSold,
       staticRevenue |-> staticRevenue,
       manualOccupancy |-> manualOccupancy,
       manualRoomsSold |-> manualRoomsSold,
       manualRevenue |-> manualRevenue,
       revenueVsStatic |-> RSub(aiRevenue, staticRevenue),
       revenueVsAI |-> RSub(manualRevenue, aiRevenue),
       revenueLiftPercent |-> revenueLiftPercent,
       underpricingLoss |-> RMax(R(0), underpricingLoss),
       overpricingLoss |-> RMax(R(0), overpricingLoss)]

(***************************************************************************)
(* mockData.ts: generateForecasts.  startDay is the module constant today  *)
(* (the day the module was loaded), now the clock at the time of the call. *)
(***************************************************************************)
\* no historical statistics: histStats is undefined
NoHistStats ==
  [dataPointCount |-> <<>>, occupancyVolatility |-> <<>>,
   weekdayAvgOccupancy |-> <<>>, rolling7DayTrend |-> <<>>,
   rolling30DaySeasonality |-> <<>>, weekdayBookingPace |-> <<>>]

\* histStats?.weekdayAvgOccupancy?.[dow]
AtWeekday(optTable, dow) == IF optTable = <<>> THEN <<>> ELSE <<optTable[1][dow]>>

\* the callback of Array.from (lines 100-187) for one dayOffset
ForecastDay(startDay, dayOffset, totalRooms, basePrice, baseOccupancy, histStats, competitorRates, weatherData, events, now) ==
  LET date == startDay + dayOffset
      dow == GetDay(date)
      externalSignals ==
        getExternalSignalScore(date, basePrice, competitorRates, weatherData, events, now)
      demand ==
        calculateDemandScore(date, dayOffset,
          [baseOccupancy |-> baseOccupancy,
           trendMomentum |-> <<>>,
           weights |-> NoWeights,
           historicalWeekdayAvg |-> AtWeekday(histStats.weekdayAvgOccupancy, dow),
           historicalTrend7Day |-> histStats.rolling7DayTrend,
           historicalSeasonality30Day |-> histStats.rolling30DaySeasonality,
           bookingPaceVelocity |-> AtWeekday(histStats.weekdayBookingPace, dow),
           externalSignalScore |-> <<externalSignals.totalScore>>])
      pricing ==
        calculatePrice(demand.demandScore,
          [BarePricingConfig(basePrice) EXCEPT !.projectedOccupancy = <<demand.demandScore>>])
      conf ==
        calculateConfidence(dayOffset, demand.event # <<>>, demand.eventMultiplier,
                            demand.trendFactor,
          [NoConfidenceConfig EXCEPT
             !.dataPointCount = <<OrElse(histStats.dataPointCount, 0)>>,
             !.occupancyVolatility = histStats.occupancyVolatility])
      sim ==
        simulateRevenue([totalRooms |-> totalRooms,
                         predictedOccupancy |-> demand.demandScore,
                         recommendedPrice |-> pricing.recommendedPrice,
                         staticPrice |-> basePrice,
                         manualPrice |-> pricing.recommendedPrice,
                         elasticityConfig |-> DefaultElasticityConfig])
  IN  [date |-> date,
       predictedOccupancy |-> demand.demandScore,
       recommendedPrice |-> pricing.recommendedPrice,
       minPrice |-> pricing.minPrice,
       maxPrice |-> pricing.maxPrice,
       confidence |-> conf.confidence,
       demandScore |-> demand.demandScore,
       staticPrice |-> basePrice,
       aiRevenue |-> sim.aiRevenue,
       staticRevenue |-> sim.staticRevenue,
       pricingTier |-> pricing.pricingTier,
       priceMultiplier |-> pricing.priceMultiplier,
       isSaturated |-> pricing.isSaturated,
       saturationBoost |-> pricing.saturationBoost,
       seasonalityFactor |-> demand.seasonalityFactor,
       weekdayFactor |-> demand.weekdayFactor,
       eventMultiplier |-> demand.eventMultiplier,
       trendFactor |-> demand.trendFactor,
       bookingPaceVelocity |-> demand.bookingPaceVelocity,
       externalSignalScore |-> externalSignals.totalScore,
       externalEventImpact |-> externalSignals.eventImpact,
       externalWeatherImpact |-> externalSignals.weatherImpact,
       externalCompetitorImpact |-> externalSignals.competitorImpact,
       weatherAvailable |-> externalSignals.weatherAvailable,
       eventsAvailable |-> externalSignals.eventsAvailable,
       demandComponents |-> demand.components,
       dataCompleteness |-> conf.dataCompleteness,
       eventSignalStrength |-> conf.eventSignalStrength,
       trendConsistency |-> conf.trendConsistency,
       dataVolumeScore |-> conf.dataVolumeScore,
       volatilityScore |-> conf.volatilityScore,
       event |-> demand.event]

\* Array.from({ length: 30 }, (_, dayOffset) => ...)
generateForecasts(startDay, totalRooms, basePrice, baseOccupancy, histStats, competitorRates, weatherData, events, now) ==
  [k \in 1..30 |->
     ForecastDay(startDay, k - 1, totalRooms, basePrice, baseOccupancy, histStats,
                 competitorRates, weatherData, events, now)]

(***************************************************************************)
(* Inputs of computeHistoricalStats, runBacktest and                       *)
(* calculateForecastAccuracy                                               *)
(***************************************************************************)
\* every list of at most MaxRecords records of RecordKinds, and series of
\* SeriesLength and SeriesLength \div 2 + 1 consecutive days, in ascending
\* and in descending order
HistoryStart == 20486
MaxRecords == 4
SeriesLength == 30

HistoricalRecord(date, available, sold, rate) ==
  [date |-> date, rooms_available |-> available, rooms_sold |-> sold,
   average_daily_rate |-> rate, cancellations |-> 0]

\* two records of the same day, a day without rooms, a later day listed first
RecordKinds ==
  { HistoricalRecord(HistoryStart + 2, 10, 2, 100),
    HistoricalRecord(HistoryStart, 10, 5, 120),
    HistoricalRecord(HistoryStart + 1, 0, 0, 90),
    HistoricalRecord(HistoryStart, 10, 10, 150) }

SeriesAscending(n) ==
  [i \in 1..n |->
     HistoricalRecord(HistoryStart + i - 1, 10, (3 * i) % 11, 100 + 10 * (i % 3))]

Reversed(s) == [i \in 1..Len(s) |-> s[Len(s) - i + 1]]

HistorySeries ==
  LET lengths == {SeriesLength, SeriesLength \div 2 + 1}
  IN  {SeriesAscending(n) : n \in lengths} \cup
      {Reversed(SeriesAscending(n)) : n \in lengths}

HistoryLists == SeqsUpTo(RecordKinds, MaxRecords) \cup HistorySeries

BacktestConfigs ==
  [baseOccupancy : {Rat(50, 100), Rat(72, 100)},
   basePrice : {R(100), R(120)},
   totalRooms : {85}]

ForecastRecord(date, predicted, actual) ==
  [date |-> date, predictedOccupancy |-> predicted, actualOccupancy |-> actual]

ForecastKinds ==
  { ForecastRecord(HistoryStart + 1, 80, 70),
    ForecastRecord(HistoryStart, 50, 0),
    ForecastRecord(HistoryStart, 60, 60),
    ForecastRecord(HistoryStart + 2, 30, 90) }

ForecastLists == SeqsUpTo(ForecastKinds, MaxRecords)

(***************************************************************************)
(* The functions that take a record list.  args.records is the caller's    *)
(* array: the call action stores in it what the array holds when the       *)
(* function returns.                                                       *)
(***************************************************************************)
InitHistory ==
  /\ \/ /\ fn = "computeHistoricalStats"
        /\ args \in [records : {<<>>} \cup {<<l>> : l \in HistoryLists}]
     \/ /\ fn = "runBacktest"
        /\ args \in [records : HistoryLists, config : BacktestConfigs]
     \/ /\ fn = "calculateForecastAccuracy"
        /\ args \in [records : ForecastLists]
  /\ result = NoResult
  /\ pc = "ready"
  /\ today = 0
  /\ ProviderCold

CallComputeHistoricalStats ==
  /\ pc = "ready"
  /\ fn = "computeHistoricalStats"
  /\ result' = computeHistoricalStats(args.records)
  /\ args' = [args EXCEPT !.records =
                IF args.records = <<>> \/ Len(args.records[1]) = 0
                THEN args.records
                ELSE <<SortedCopy(args.records[1]).records>>]
  /\ pc' = "done"
  /\ UNCHANGED <<fn, today>>
  /\ UNCHANGED providerVars

CallRunBacktest ==
  /\ pc = "ready"
  /\ fn = "runBacktest"
  /\ result' = runBacktest(args.records, args.config)
  /\ args' = [args EXCEPT !.records = SortedCopy(args.records).records]
  /\ pc' = "done"
  /\ UNCHANGED <<fn, today>>
  /\ UNCHANGED providerVars

CallCalculateForecastAccuracy ==
  /\ pc = "ready"
  /\ fn = "calculateForecastAccuracy"
  /\ result' = calculateForecastAccuracy(args.records)
  /\ args' = [args EXCEPT !.records =
                IF Len(args.records) = 0 THEN args.records
                ELSE SortedCopy(args.records).records]
  /\ pc' = "done"
  /\ UNCHANGED <<fn, today>>
  /\ UNCHANGED providerVars

NextHistory ==
  \/ CallComputeHistoricalStats
  \/ CallRunBacktest
  \/ CallCalculateForecastAccuracy

SpecHistory == InitHistory /\ [][NextHistory]_vars

(***************************************************************************)
(* Properties of the functions that take a record list (checked under      *)
(* SpecHistory)                                                            *)
(***************************************************************************)
StatsDone == fn = "computeHistoricalStats" /\ pc = "done"

BacktestDone == fn = "runBacktest" /\ pc = "done"

AccuracyDone == fn = "calculateForecastAccuracy" /\ pc = "done"

\* the record list of the call is missing or empty
NoRecords == args.records = <<>> \/ args.records = << <<>> >>

\* C12: on an empty or missing record list computeHistoricalStats returns
\* (it does not raise) hasData = false, totalRecords = 0, the three
\* multipliers 1.0, occupancyVolatility 0 and weekdayBookingPace 0 on every
\* weekday.
C12_EmptyHistoryNeutral ==
  (StatsDone /\ NoRecords) =>
    /\ result # NoResult
    /\ result.hasData = FALSE
    /\ result.totalRecords = 0
    /\ result.rolling7DayTrend = R(1)
    /\ result.rolling30DaySeasonality = R(1)
    /\ result.recentMomentum14Day = R(1)
    /\ result.occupancyVolatility = R(0)
    /\ \A d \in 0..6 : result.weekdayBookingPace[d] = R(0)

\* computeHistoricalStats([]) has returned
C12_WitnessEmptyList ==
  /\ StatsDone
  /\ args.records = << <<>> >>
  /\ result.hasData = FALSE

\* the dates of a record list are in non-decreasing order
SortedByDate(records) ==
  \A i \in 1..(Len(records) - 1) : records[i].date <= records[i + 1].date

\* the caller's array of a call, whatever the function
CallerRecords(a) ==
  IF fn = "computeHistoricalStats"
  THEN IF a.records = <<>> THEN <<>> ELSE a.records[1]
  ELSE a.records

\* C17: computeHistoricalStats, runBacktest and calculateForecastAccuracy
\* leave the record list passed to them as it was: the same elements in the
\* same order, sorted or not.
C17_RecordListUnchanged ==
  [][(pc = "ready" /\ pc' = "done") => args'.records = args.records]_vars

\* runBacktest has returned from a call on a list that is not sorted by date
C17_WitnessUnsortedBacktest ==
  /\ BacktestDone
  /\ ~SortedByDate(CallerRecords(args))
  /\ SortedByDate(result.dailyResults)

(***************************************************************************)
(* The degenerate recommended price (checked under SpecElasticity)         *)
(***************************************************************************)
\* C13: with recommendedPrice = 0 calculateElasticity returns, for every
\* baseOccupancy, manualPrice and configuration, projectedOccupancy =
\* baseOccupancy, occupancyChange = 0 and priceChangePercent = 0 (it does
\* not divide by the recommended price).
C13_ZeroRecommendedPrice ==
  (ElasticityDone /\ args.recommendedPrice = R(0)) =>
    /\ result # NoResult
    /\ result.projectedOccupancy = args.baseOccupancy
    /\ result.occupancyChange = R(0)
    /\ result.priceChangePercent = R(0)

\* a call with recommendedPrice 0, a manual price above it and a base
\* occupancy outside [occupancyFloor, occupancyCeiling]
C13_WitnessOutsideBand ==
  /\ ElasticityDone
  /\ args.recommendedPrice = R(0)
  /\ args.manualPrice = R(150)
  /\ args.baseOccupancy = R(100)
  /\ result.projectedOccupancy = R(100)

(***************************************************************************)
(* Inputs of calculateConfidence                                           *)
(***************************************************************************)
EventMultipliers == {EVENT_IMPACTS[t] : t \in DOMAIN EVENT_IMPACTS}

TrendFactors == {Rat(85, 100), R(1), Rat(106, 100), Rat(115, 100), Rat(130, 100)}

\* no configuration, the configurations generateForecasts builds from the
\* historical statistics, and configurations that set the other fields
ConfidenceConfigs ==
  { NoConfidenceConfig,
    [NoConfidenceConfig EXCEPT !.dataPointCount = <<0>>],
    [NoConfidenceConfig EXCEPT !.dataPointCount = <<10>>,
                               !.occupancyVolatility = <<R(0)>>],
    [NoConfidenceConfig EXCEPT !.dataPointCount = <<45>>,
                               !.occupancyVolatility = <<Rat(1, 10)>>],
    [NoConfidenceConfig EXCEPT !.dataPointCount = <<90>>,
                               !.occupancyVolatility = <<Rat(317, 1000)>>],
    [NoConfidenceConfig EXCEPT !.dataPointCount = <<10>>,
                               !.minDataForFullConfidence = <<30>>],
    [NoConfidenceConfig EXCEPT !.historicalStability = <<R(0)>>],
    [NoConfidenceConfig EXCEPT !.historicalStability = <<R(1)>>,
                               !.dataPointCount = <<200>>,
                               !.occupancyVolatility = <<R(0)>>],
    [NoConfidenceConfig EXCEPT !.forecastHorizon = <<15>>],
    [NoConfidenceConfig EXCEPT !.forecastHorizon = <<0>>] }

InitConfidence ==
  /\ fn = "calculateConfidence"
  /\ args \in [dayOffset : DayOffsets, hasEvent : BOOLEAN,
               eventMultiplier : EventMultipliers, trendFactor : TrendFactors,
               config : ConfidenceConfigs]
  /\ result = NoResult
  /\ pc = "ready"
  /\ today = 0
  /\ ProviderCold

CallCalculateConfidence ==
  /\ pc = "ready"
  /\ fn = "calculateConfidence"
  /\ result' = calculateConfidence(args.dayOffset, args.hasEvent, args.eventMultiplier,
                                   args.trendFactor, args.config)
  /\ pc' = "done"
  /\ UNCHANGED <<fn, args, today>>
  /\ UNCHANGED providerVars

NextConfidence == CallCalculateConfidence

SpecConfidence == InitConfidence /\ [][NextConfidence]_vars

(***************************************************************************)
(* Properties of calculateConfidence (checked under SpecConfidence)        *)
(***************************************************************************)
ConfidenceDone == fn = "calculateConfidence" /\ pc = "done"

\* x is an integer between lo and hi (NaN is not)
IsIntegerIn(x, lo, hi) == x.d = 1 /\ lo <= x.n /\ x.n <= hi

\* C14: the confidence calculateConfidence returns is an integer in
\* [0,100], for every dayOffset >= 0, event flag, eventMultiplier,
\* trendFactor and configuration.
C14_ConfidenceIntegerInRange ==
  ConfidenceDone => IsIntegerIn(result.confidence, 0, 100)

(***************************************************************************)
(* Backtest and forward pipeline (checked under SpecHistory)               *)
(***************************************************************************)
\* what generateForecasts produces for the calendar date at day offset 0
\* (the forecast is made on that day), with the hotel of the backtest and
\* no historical statistics, competitor rates, weather or events
ForwardForecastOn(date, config) ==
  ForecastDay(date, 0, R(config.totalRooms), config.basePrice, config.baseOccupancy,
              NoHistStats, <<>>, <<>>, <<>>, date)

\* the entries of dailyResults with fewer than 3 preceding records
NeutralTrendDays == {i \in 1..Len(result.dailyResults) : i <= 3}

\* C18: for a historical day with fewer than 3 preceding records,
\* runBacktest's aiDemandScore, aiRecommendedPrice, aiPricingTier and
\* aiConfidence equal the demandScore, recommendedPrice, pricingTier and
\* confidence generateForecasts produces for the same date at day offset 0
\* with the same base occupancy and base price and no external data.
C18_BacktestMatchesForecast ==
  BacktestDone =>
    \A i \in NeutralTrendDays :
      LET day == result.dailyResults[i]
          forecast == ForwardForecastOn(day.date, args.config)
      IN  /\ day.aiDemandScore = forecast.demandScore
          /\ day.aiRecommendedPrice = forecast.recommendedPrice
          /\ day.aiPricingTier = forecast.pricingTier
          /\ day.aiConfidence = forecast.confidence

\* the trend momentum of the i-th day of the sorted series as the
\* backtest is meant to derive it: from the at most 14 records before the
\* day, 1.0 when there are fewer than 3 of them, else their mean occupancy
\* over baseOccupancy, clamped to [0.85, 1.15]
PrecedingTrend(sorted, i, baseOccupancy) ==
  LET first == IF i - 14 < 1 THEN 1 ELSE i - 14
      preceding == [k \in 1..(i - first) |-> OccupancyOf(sorted[first + k - 1])]
  IN  IF Len(preceding) < 3 THEN R(1)
      ELSE RClamp(RDiv(RDiv(RSum(preceding), R(Len(preceding))), baseOccupancy),
                  Rat(85, 100), Rat(115, 100))

\* C19: the trend momentum of the i-th day of the date-sorted series comes
\* from the at most 14 records strictly before it (1.0 when fewer than 3,
\* else mean occupancy / baseOccupancy clamped to [0.85,1.15]), and the AI
\* demand score, price and confidence of the day are those of the chain
\* run on the day's date with that momentum: nothing of the day's own
\* record but its date, and nothing of a later record, enters them.
C19_TrendFromPrecedingDays ==
  BacktestDone =>
    \A i \in 1..Len(result.dailyResults) :
      LET day == result.dailyResults[i]
          trend == PrecedingTrend(SortByDate(args.records), i, args.config.baseOccupancy)
          chain == BacktestChain(day.date, trend, args.config)
      IN  /\ day.trendFactor = RRoundTo(trend, 1000)
          /\ day.aiDemandScore = chain.demand.demandScore
          /\ day.aiRecommendedPrice = chain.pricing.recommendedPrice
          /\ day.aiConfidence = chain.confidence.confidence

\* a series of more than 15 days whose 16th day has a momentum strictly
\* inside (0.85, 1.15) and different from the neutral 1.0
C19_WitnessFourteenDayWindow ==
  /\ BacktestDone
  /\ Len(result.dailyResults) > 15
  /\ RLt(Rat(85, 100), result.dailyResults[16].trendFactor)
  /\ RLt(result.dailyResults[16].trendFactor, Rat(115, 100))
  /\ result.dailyResults[16].trendFactor # R(1)

\* how many entries of a list have the date, rooms sold and rate of r
EntriesLike(list, r, Date(_), Sold(_), Rate(_)) ==
  Cardinality({k \in 1..Len(list) :
                 /\ Date(list[k]) = r.date
                 /\ Sold(list[k]) = r.rooms_sold
                 /\ Rate(list[k]) = R(r.average_daily_rate)})

\* C20: dailyResults is in non-decreasing date order and has exactly one
\* entry per input record; totalDays = winDays + lossDays = the number of
\* records; a day is a win exactly when its AI-projected revenue is
\* strictly greater than its actual revenue; and revenueDifference =
\* aiTotalRevenue - actualTotalRevenue = the sum of the daily differences.
C20_BacktestSummaryConsistent ==
  BacktestDone =>
    LET days == result.dailyResults
        n == Len(args.records)
    IN  /\ SortedByDate(days)
        /\ Len(days) = n
        /\ \A j \in 1..n :
             EntriesLike(days, args.records[j],
                         LAMBDA d : d.date, LAMBDA d : d.actualRoomsSold,
                         LAMBDA d : d.actualADR)
             = EntriesLike(args.records, args.records[j],
                           LAMBDA r : r.date, LAMBDA r : r.rooms_sold,
                           LAMBDA r : R(r.average_daily_rate))
        /\ result.totalDays = n
        /\ result.winDays + result.lossDays = n
        /\ \A i \in 1..n :
             days[i].isWin <=> RLt(days[i].actualRevenue, days[i].aiProjectedRevenue)
        /\ result.winDays = Cardinality({i \in 1..n : days[i].isWin})
        /\ result.revenueDifference
             = RSub(result.aiTotalRevenue, result.actualTotalRevenue)
        /\ result.revenueDifference
             = RSum([i \in 1..n |-> days[i].revenueDifference])

\* a backtest with a winning day and a day whose AI-projected revenue
\* equals its actual revenue, counted as a loss
C20_WitnessTieIsLoss ==
  /\ BacktestDone
  /\ result.winDays > 0
  /\ \E i \in 1..Len(result.dailyResults) :
       /\ result.dailyResults[i].aiProjectedRevenue = result.dailyResults[i].actualRevenue
       /\ ~result.dailyResults[i].isWin

(***************************************************************************)
(* Data-fetch collaborators: fetchWeatherData and fetchEventData           *)
(* (marketSignals part of priceOptimizer.ts) and the weather and events    *)
(* edge functions with their cache tables                                  *)
(*                                                                         *)
(* Time is counted in hours.  What a provider returns is abstracted to the *)
(* hour at which the provider produced it: the field asOf of a row stands  *)
(* for its payload columns (temperature, rain_probability, condition, or   *)
(* the event's category and attendance).  fetched_at is the column of the  *)
(* cache tables, DEFAULT now(), written by no statement of the functions.  *)
(***************************************************************************)
CACHE_TTL_MS == 6

\* days of forecast in one answer of the weather provider
ForecastDays == 2

DateOf(now) == now \div 24

\* sanitizeCity followed by the emptiness test of the edge functions: of
\* the cities of the model only "!!" loses every character
sanitizeCity(input) == IF input = "!!" THEN "" ELSE input

\* Map.get with the age test of getMemCached: the entry's data, or null
getMemCached(cache, key, now) ==
  IF \E e \in cache : e.key = key /\ ~(now - e.ts > CACHE_TTL_MS)
  THEN <<(CHOOSE e \in cache : e.key = key).data>>
  ELSE <<>>

setMemCache(cache, key, data, now) ==
  {e \in cache : e.key # key} \cup {[key |-> key, data |-> data, ts |-> now]}

\* .order("date", {ascending: true}) over rows of distinct dates
OrderByDate(rows) ==
  [i \in 1..Cardinality(rows) |->
     CHOOSE r \in rows : Cardinality({q \in rows : q.date < r.date}) = i - 1]

NoBody == [error |-> <<>>, data |-> <<>>]

Response(status, error, data) ==
  [status |-> status, body |-> [error |-> error, data |-> data]]

\* upsert(rows, {onConflict: "city,date"}): a row that exists takes the
\* columns of the payload and keeps its fetched_at, a new row gets now()
Upsert(table, rows, now) ==
  LET Hit(n) == {r \in table : r.city = n.city /\ r.date = n.date}
      Stored(n) == IF Hit(n) # {}
                   THEN [(CHOOSE r \in Hit(n) : TRUE) EXCEPT !.asOf = n.asOf]
                   ELSE [city |-> n.city, date |-> n.date, asOf |-> n.asOf,
                         fetched_at |-> now]
  IN  {r \in table : \A n \in rows : ~(r.city = n.city /\ r.date = n.date)}
        \cup {Stored(n) : n \in rows}

\* the weather edge function called with {city}: its response and the
\* weather_cache table it leaves
weatherFunction(city, now, table, apiKey, upstream) ==
  LET hasCity == city # ""
      sanitizedCity == IF hasCity THEN sanitizeCity(city) ELSE ""
      cacheKey == ToLowerCase(sanitizedCity)
      sixHoursAgo == now - 6
      cached == {r \in table : r.city = cacheKey /\ r.fetched_at >= sixHoursAgo}
      rows == {[city |-> cacheKey, date |-> DateOf(now) + k, asOf |-> now] :
                 k \in 0..(ForecastDays - 1)}
  IN  IF ~hasCity
      THEN [res |-> Response(400, <<"city or lat/lon is required">>, <<>>),
            table |-> table]
      ELSE IF sanitizedCity = ""
      THEN [res |-> Response(400, <<"Invalid city name">>, <<>>), table |-> table]
      ELSE IF cached # {}
      THEN [res |-> Response(200, <<>>, <<OrderByDate(cached)>>), table |-> table]
      ELSE IF ~apiKey
      THEN [res |-> Response(503, <<"Weather service unavailable">>, << <<>> >>),
            table |-> table]
      ELSE IF upstream = "failed"
      THEN [res |-> Response(200, <<"Weather API failed">>, << <<>> >>),
            table |-> table]
      ELSE IF upstream = "malformed"
      THEN [res |-> Response(500, <<"Internal server error">>, << <<>> >>),
            table |-> table]
      ELSE [res |-> Response(200, <<>>, <<OrderByDate(rows)>>),
            table |-> Upsert(table, rows, now)]

\* the events edge function past the validation of its body: the cache
\* and the provider are addressed by the city alone
eventsFunction(city, now, table, apiKey, upstream) ==
  LET sanitizedCity == sanitizeCity(city)
      normalizedCity == ToLowerCase(sanitizedCity)
      twentyFourHoursAgo == now - 24
      cached == {r \in table : r.city = normalizedCity
                                 /\ r.fetched_at >= twentyFourHoursAgo}
      rows == {[city |-> normalizedCity, date |-> DateOf(now) + 1,
                name |-> "expo", asOf |-> now]}
      kept == {r \in table : ~(r.city = normalizedCity
                                 /\ r.fetched_at < twentyFourHoursAgo)}
      inserted == {[city |-> r.city, date |-> r.date, name |-> r.name,
                    asOf |-> r.asOf, fetched_at |-> now] : r \in rows}
  IN  IF city = ""
      THEN [res |-> Response(400, <<"city is required">>, <<>>), table |-> table]
      ELSE IF sanitizedCity = ""
      THEN [res |-> Response(400, <<"Invalid city name">>, <<>>), table |-> table]
      ELSE IF cached # {}
      THEN [res |-> Response(200, <<>>, <<OrderByDate(cached)>>), table |-> table]
      ELSE IF ~apiKey
      THEN [res |-> Response(503, <<"Events service unavailable">>, << <<>> >>),
            table |-> table]
      ELSE IF upstream = "failed"
      THEN [res |-> Response(200, <<"Events API failed">>, << <<>> >>),
            table |-> table]
      ELSE IF upstream = "malformed"
      THEN [res |-> Response(500, <<"Internal server error">>, << <<>> >>),
            table |-> table]
      ELSE IF upstream = "none"
      THEN [res |-> Response(200, <<>>, << <<>> >>), table |-> table]
      ELSE [res |-> Response(200, <<>>, <<OrderByDate(rows)>>),
            table |-> kept \cup inserted]

\* supabase.functions.invoke as the two callers read it: {data, error}, with
\* error set when the function was not reached or answered outside 2xx, and
\* data the parsed body otherwise
invoke(net, res) ==
  IF net = "unreachable"
  THEN [data |-> <<>>, error |-> <<"FunctionsFetchError">>]
  ELSE IF res.status < 200 \/ res.status > 299
  THEN [data |-> <<>>, error |-> <<"FunctionsHttpError">>]
  ELSE [data |-> <<res.body>>, error |-> <<>>]

\* error || !data?.data || data.data.length === 0
NothingReturned(reply) ==
  \/ reply.error # <<>>
  \/ reply.data = <<>>
  \/ reply.data[1].data = <<>>
  \/ Len(reply.data[1].data[1]) = 0

\* what the call saw of the edge function (nothing of it when invoke threw
\* or the function was not reached)
Seen(net, res) ==
  IF net = "delivered"
  THEN <<[net |-> net, status |-> res.status, body |-> res.body]>>
  ELSE <<[net |-> net, status |-> 0, body |-> NoBody]>>

\* fetchWeatherData(city) at hour now: the value the promise resolves to and
\* the memCache and weather_cache it leaves; net, apiKey and upstream are
\* what the network, the deployment and the weather provider do this time
fetchWeatherData(city, now, cache, table, net, apiKey, upstream) ==
  LET cacheKey == <<"weather", ToLowerCase(city)>>
      cached == getMemCached(cache, cacheKey, now)
      edge == weatherFunction(city, now, table, apiKey, upstream)
      reply == invoke(net, edge.res)
      tableAfter == IF net = "delivered" THEN edge.table ELSE table
      rows == reply.data[1].data[1]
      weatherData == [i \in 1..Len(rows) |-> [asOf |-> rows[i].asOf]]
  IN  IF city = ""
      THEN [result |-> [data |-> <<>>, available |-> FALSE],
            memCache |-> cache, table |-> table, response |-> <<>>]
      ELSE IF cached # <<>>
      THEN [result |-> [data |-> cached[1], available |-> TRUE],
            memCache |-> cache, table |-> table, response |-> <<>>]
      ELSE IF net = "throws"
      THEN [result |-> [data |-> <<>>, available |-> FALSE],
            memCache |-> cache, table |-> table, response |-> Seen(net, edge.res)]
      ELSE IF NothingReturned(reply)
      THEN [result |-> [data |-> <<>>, available |-> FALSE],
            memCache |-> cache, table |-> tableAfter,
            response |-> Seen(net, edge.res)]
      ELSE [result |-> [data |-> weatherData, available |-> TRUE],
            memCache |-> setMemCache(cache, cacheKey, weatherData, now),
            table |-> tableAfter, response |-> Seen(net, edge.res)]

isValidLat(v) == v >= -90 /\ v <= 90

isValidLon(v) == v >= -180 /\ v <= 180

\* the events edge function behind its validation of the coordinates
eventsEndpoint(city, lat, lon, now, table, apiKey, upstream) ==
  IF /\ city # "" /\ sanitizeCity(city) # ""
     /\ lat # <<>> /\ lon # <<>>
     /\ ~(isValidLat(lat[1]) /\ isValidLon(lon[1]))
  THEN [res |-> Response(400, <<"Invalid coordinates">>, <<>>), table |-> table]
  ELSE eventsFunction(city, now, table, apiKey, upstream)

\* fetchEventData(city, lat, lon) at hour now
fetchEventData(city, lat, lon, now, cache, table, net, apiKey, upstream) ==
  LET Truthy(v) == v # <<>> /\ v[1] # 0
      cacheKey == IF Truthy(lat) /\ Truthy(lon)
                  THEN <<"events", lat[1], lon[1]>>
                  ELSE <<"events", ToLowerCase(city)>>
      cached == getMemCached(cache, cacheKey, now)
      edge == eventsEndpoint(city, lat, lon, now, table, apiKey, upstream)
      reply == invoke(net, edge.res)
      tableAfter == IF net = "delivered" THEN edge.table ELSE table
      rows == reply.data[1].data[1]
      events == [i \in 1..Len(rows) |->
                   [name |-> rows[i].name, date |-> rows[i].date,
                    asOf |-> rows[i].asOf]]
  IN  IF city = "" /\ ~Truthy(lat)
      THEN [result |-> [data |-> <<>>, available |-> FALSE],
            memCache |-> cache, table |-> table, response |-> <<>>]
      ELSE IF cached # <<>>
      THEN [result |-> [data |-> cached[1], available |-> TRUE],
            memCache |-> cache, table |-> table, response |-> <<>>]
      ELSE IF net = "throws"
      THEN [result |-> [data |-> <<>>, available |-> FALSE],
            memCache |-> cache, table |-> table, response |-> Seen(net, edge.res)]
      ELSE IF NothingReturned(reply)
      THEN [result |-> [data |-> <<>>, available |-> (reply.error = <<>>)],
            memCache |-> cache, table |-> tableAfter,
            response |-> Seen(net, edge.res)]
      ELSE [result |-> [data |-> events, available |-> TRUE],
            memCache |-> setMemCache(cache, cacheKey, events, now),
            table |-> tableAfter, response |-> Seen(net, edge.res)]

(***************************************************************************)
(* The collaborators as a state machine: the lookups of browser sessions   *)
(* against one deployment while time passes.  Each lookup draws the city   *)
(* and what the network, the deployment's API key and the provider do this *)
(* time.                                                                   *)
(***************************************************************************)
MaxClock == 30

TickHours == 3

Cities == {"", "Almaty", "!!"}

Latitudes == {<<>>, <<43>>}

\* what can happen to one lookup: the function is not reached, invoke
\* throws, the deployment has no API key, or the provider answers (well,
\* with an error status, with a body the function cannot read, with no
\* event at all)
Worlds(upstreams) ==
  {[net |-> "delivered", apiKey |-> TRUE, upstream |-> u] : u \in upstreams}
    \cup {[net |-> "delivered", apiKey |-> FALSE, upstream |-> "ok"],
          [net |-> "unreachable", apiKey |-> TRUE, upstream |-> "ok"],
          [net |-> "throws", apiKey |-> TRUE, upstream |-> "ok"]}

WeatherWorlds == Worlds({"ok", "failed", "malformed"})

EventWorlds == Worlds({"ok", "none", "failed", "malformed"})

\* the two lookups share nothing but the Map, where their keys differ
\* ("weather:..." and "events:..."): a behaviour follows one of them
InitFetch ==
  /\ fn \in {"fetchWeatherData", "fetchEventData"}
  /\ args = [city |-> ""]
  /\ result = NoResult
  /\ pc = "ready"
  /\ today = 0
  /\ ProviderCold

CallFetchWeatherData ==
  \E city \in Cities, w \in WeatherWorlds :
    LET out == fetchWeatherData(city, clock, memCache, weather_cache,
                                w.net, w.apiKey, w.upstream)
    IN  /\ fn = "fetchWeatherData"
        /\ args' = [city |-> city]
        /\ result' = out.result
        /\ memCache' = out.memCache
        /\ weather_cache' = out.table
        /\ response' = out.response
        /\ pc' = "done"
        /\ UNCHANGED <<fn, today, clock, event_cache>>

CallFetchEventData ==
  \E city \in Cities, lat \in Latitudes, w \in EventWorlds :
    LET lon == IF lat = <<>> THEN <<>> ELSE <<77>>
        out == fetchEventData(city, lat, lon, clock, memCache, event_cache,
                              w.net, w.apiKey, w.upstream)
    IN  /\ fn = "fetchEventData"
        /\ args' = [city |-> city, lat |-> lat, lon |-> lon]
        /\ result' = out.result
        /\ memCache' = out.memCache
        /\ event_cache' = out.table
        /\ response' = out.response
        /\ pc' = "done"
        /\ UNCHANGED <<fn, today, clock, weather_cache>>

\* time passes between two lookups
HoursPass ==
  /\ clock + TickHours <= MaxClock
  /\ clock' = clock + TickHours
  /\ pc' = "ready"
  /\ UNCHANGED <<fn, args, result, today, memCache, weather_cache, event_cache,
                 response>>

\* the page is loaded again: the module starts with `new Map()`
Reload ==
  /\ memCache' = {}
  /\ pc' = "ready"
  /\ UNCHANGED <<fn, args, result, today, clock, weather_cache, event_cache,
                 response>>

NextFetch ==
  \/ CallFetchWeatherData
  \/ CallFetchEventData
  \/ HoursPass
  \/ Reload

SpecFetch == InitFetch /\ [][NextFetch]_vars

(***************************************************************************)
(* Properties of fetchWeatherData and fetchEventData (checked under        *)
(* SpecFetch)                                                              *)
(***************************************************************************)
WeatherLookupDone == pc = "done" /\ fn = "fetchWeatherData"

EventLookupDone == pc = "done" /\ fn = "fetchEventData"

\* the last call reached for the edge function and the lookup failed:
\* invoke threw, the function was not reached, it answered outside 2xx
\* (400, 500, 503 without API key), or it answered with an error in the
\* body (the provider's API failed)
LookupFailed ==
  /\ response # <<>>
  /\ \/ response[1].net # "delivered"
     \/ response[1].status # 200
     \/ response[1].body.error # <<>>

UpstreamFailed ==
  /\ response # <<>>
  /\ response[1].net = "delivered"
  /\ response[1].status = 200
  /\ response[1].body.error # <<>>

\* C15: whenever the provider lookup of fetchWeatherData or fetchEventData
\* fails (transport error, error response of the edge function, missing API
\* key, failure of the upstream API, thrown exception) the call resolves to
\* an empty list with available = false
C15_FailedLookupDegrades ==
  ((WeatherLookupDone \/ EventLookupDone) /\ LookupFailed)
    => result = [data |-> <<>>, available |-> FALSE]

\* the part of C15 that holds: fetchWeatherData
WeatherFailedLookupDegrades ==
  (WeatherLookupDone /\ LookupFailed)
    => result = [data |-> <<>>, available |-> FALSE]

\* fetchEventData when the failure reaches it as an error of invoke
EventErrorDegrades ==
  (EventLookupDone /\ LookupFailed /\ ~UpstreamFailed)
    => result = [data |-> <<>>, available |-> FALSE]

\* records of a weather lookup left the weather provider at most 6 hours
\* before the lookup
WeatherRecordsFresh ==
  WeatherLookupDone => \A i \in DOMAIN result.data : clock - result.data[i].asOf <= 6

\* records of an events lookup left the events provider at most 24 hours
\* before the lookup
EventRecordsFresh ==
  EventLookupDone => \A i \in DOMAIN result.data : clock - result.data[i].asOf <= 24

\* C16: cached provider data is time-boxed over the in-memory cache and the
\* cache tables together: what a weather lookup returns was fetched from
\* the weather provider at most 6 hours earlier, what an events lookup
\* returns was fetched from the events provider at most 24 hours earlier
C16_CachedDataTimeBoxed == WeatherRecordsFresh /\ EventRecordsFresh

(***************************************************************************)
(* runBacktest on degenerate input: a hotel whose average occupancy is 0,  *)
(* days without rooms, days without sales                                  *)
(***************************************************************************)
\* a day without rooms, two days without sales, a day with sales
DegenerateKinds ==
  { HistoricalRecord(HistoryStart, 0, 0, 0),
    HistoricalRecord(HistoryStart + 1, 10, 0, 100),
    HistoricalRecord(HistoryStart + 2, 10, 0, 90),
    HistoricalRecord(HistoryStart + 3, 10, 5, 120) }

DegenerateLists == SeqsUpTo(DegenerateKinds, MaxRecords)

DegenerateConfigs ==
  [baseOccupancy : {R(0)},
   basePrice : {R(0), R(100)},
   totalRooms : {0, 85}]

InitDegenerate ==
  /\ fn = "runBacktest"
  /\ args \in [records : DegenerateLists, config : DegenerateConfigs]
  /\ result = NoResult
  /\ pc = "ready"
  /\ today = 0
  /\ ProviderCold

NextDegenerate == CallRunBacktest

SpecDegenerate == InitDegenerate /\ [][NextDegenerate]_vars

\* x is a number between lo and hi
IsNumberIn(x, lo, hi) == ~IsNaN(x) /\ RLe(lo, x) /\ RLe(x, hi)

\* the scores and prices of the days are numbers in their ranges
DaysInRange ==
  \A i \in DOMAIN result.dailyResults :
    LET day == result.dailyResults[i]
    IN  /\ IsNumberIn(day.aiDemandScore, R(0), R(100))
        /\ IsNumberIn(day.aiRecommendedPrice,
                      RMul(args.config.basePrice, Rat(70, 100)),
                      RMul(args.config.basePrice, Rat(180, 100)))

\* no actual revenue, no uplift
NoRevenueNoUplift ==
  result.actualTotalRevenue = R(0) => result.revenueUpliftPercent = R(0)

\* C21: runBacktest returns defined, in-range results for degenerate input
\* (baseOccupancy 0, records with rooms_available 0, total actual revenue
\* 0): every day's aiDemandScore is a number in [0, 100], every
\* aiRecommendedPrice is a number between the price floor and the price
\* ceiling, and revenueUpliftPercent is 0 when the actual total revenue is 0
C21_DegenerateBacktestDefined ==
  BacktestDone => (DaysInRange /\ NoRevenueNoUplift)

\* the part of C21 that holds: the uplift of a backtest without revenue
C21_NoRevenueNoUplift == BacktestDone => NoRevenueNoUplift

\* a backtest without actual revenue over a day without rooms
NoRevenueBacktest ==
  /\ BacktestDone
  /\ result.actualTotalRevenue = R(0)
  /\ \E i \in DOMAIN args.records : args.records[i].rooms_available = 0

(***************************************************************************)
(* calculatePrice with configured spreads                                  *)
(***************************************************************************)
\* Spreads: (minSpread, maxSpread), <<>> = default, the ends of [0, 1]
\* included.  Bands: (floorMultiplier, ceilingMultiplier): the defaults, a
\* narrow band, a band of one point, a floor of 0
SpreadConfigs ==
  LET Spreads ==
        { <<<<>>, <<>>>>,
          <<<<R(0)>>, <<R(0)>>>>,
          <<<<R(1)>>, <<R(1)>>>>,
          <<<<Rat(1, 2)>>, <<Rat(7, 100)>>>> }
      Bands ==
        { <<<<>>, <<>>>>,
          <<<<Rat(84, 100)>>, <<Rat(125, 100)>>>>,
          <<<<R(1)>>, <<R(1)>>>>,
          <<<<R(0)>>, <<Rat(111, 100)>>>> }
  IN  { [basePrice |-> bp,
         floorMultiplier |-> band[1],
         ceilingMultiplier |-> band[2],
         minSpread |-> sp[1],
         maxSpread |-> sp[2],
         saturationThreshold |-> <<>>,
         projectedOccupancy |-> po] :
           bp \in BasePrices, band \in Bands, sp \in Spreads,
           po \in {<<>>, <<R(98)>>} }

InitSpread ==
  /\ fn = "calculatePrice"
  /\ args \in [demandScore : {d \in DemandScores : d.d = 1}, config : SpreadConfigs]
  /\ result = NoResult
  /\ pc = "ready"
  /\ today = 0
  /\ ProviderCold

NextSpread == CallCalculatePrice

SpecSpread == InitSpread /\ [][NextSpread]_vars

\* C22: for basePrice >= 0, floorMultiplier <= ceilingMultiplier and spreads
\* in [0, 1], minPrice is round(max(basePrice * floorMultiplier,
\* recommendedPrice * (1 - minSpread))), maxPrice is
\* round(min(basePrice * ceilingMultiplier, recommendedPrice * (1 + maxSpread)))
\* and minPrice <= recommendedPrice <= maxPrice
C22_PriceRangeAroundRecommended ==
  (fn = "calculatePrice" /\ pc = "done") =>
    LET config == args.config
        floor == RMul(config.basePrice, OrElse(config.floorMultiplier, Rat(70, 100)))
        ceiling == RMul(config.basePrice, OrElse(config.ceilingMultiplier, Rat(180, 100)))
        below == RMul(result.recommendedPrice,
                      RSub(R(1), OrElse(config.minSpread, Rat(15, 100))))
        above == RMul(result.recommendedPrice,
                      RAdd(R(1), OrElse(config.maxSpread, Rat(20, 100))))
    IN  /\ result.minPrice = RRound(IF RLe(below, floor) THEN floor ELSE below)
        /\ result.maxPrice = RRound(IF RLe(ceiling, above) THEN ceiling ELSE above)
        /\ RLe(result.minPrice, result.recommendedPrice)
        /\ RLe(result.recommendedPrice, result.maxPrice)

\* a price whose range is cut by a floor that is not a whole number on one
\* side and by the configured spread on the other
C22_WitnessFloorCutsRange ==
  /\ fn = "calculatePrice" /\ pc = "done"
  /\ args.config.minSpread = <<R(1)>>
  /\ args.config.floorMultiplier = <<Rat(84, 100)>>
  /\ args.config.basePrice = R(101)
  /\ result.minPrice = R(85)
  /\ RLt(result.minPrice, result.recommendedPrice)
  /\ RLt(result.recommendedPrice, result.maxPrice)

(***************************************************************************)
(* simulateRevenue called on its own                                       *)
(***************************************************************************)
\* every whole predicted occupancy from 0 to 100; manual prices below, at
\* and above the recommended price
SimulationInputs ==
  [totalRooms : {R(0), R(7), R(85)},
   predictedOccupancy : {R(i) : i \in 0..100},
   recommendedPrice : RecommendedPrices,
   staticPrice : {R(100)},
   manualPrice : {R(0), R(80), R(100), R(120), R(150), R(400)},
   elasticityConfig : ElasticityConfigs]

InitSimulate ==
  /\ fn = "simulateRevenue"
  /\ args \in [input : SimulationInputs]
  /\ result = NoResult
  /\ pc = "ready"
  /\ today = 0
  /\ ProviderCold

CallSimulateRevenue ==
  /\ pc = "ready"
  /\ fn = "simulateRevenue"
  /\ result' = simulateRevenue(args.input)
  /\ pc' = "done"
  /\ UNCHANGED <<fn, args, today>>
  /\ UNCHANGED providerVars

NextSimulate == CallSimulateRevenue

SpecSimulate == InitSimulate /\ [][NextSimulate]_vars

SimulationDone == fn = "simulateRevenue" /\ pc = "done"

\* max(0, aiRevenue - manualRevenue) of the returned revenues
RevenueShortfall ==
  LET d == RSub(result.aiRevenue, result.manualRevenue)
  IN  IF RLt(d, R(0)) THEN R(0) ELSE d

\* C23: underpricingLoss is max(0, aiRevenue - manualRevenue) when
\* manualPrice < recommendedPrice and 0 otherwise, overpricingLoss is
\* max(0, aiRevenue - manualRevenue) when manualPrice > recommendedPrice and
\* 0 otherwise; both are non-negative and at most one of them is positive
C23_PricingLosses ==
  SimulationDone =>
    LET manualPrice == args.input.manualPrice
        recommendedPrice == args.input.recommendedPrice
    IN  /\ result.underpricingLoss =
             IF RLt(manualPrice, recommendedPrice) THEN RevenueShortfall ELSE R(0)
        /\ result.overpricingLoss =
             IF RLt(recommendedPrice, manualPrice) THEN RevenueShortfall ELSE R(0)
        /\ RLe(R(0), result.underpricingLoss)
        /\ RLe(R(0), result.overpricingLoss)
        /\ ~(RLt(R(0), result.underpricingLoss) /\ RLt(R(0), result.overpricingLoss))

\* a manual price above the recommended one that costs revenue
C23_WitnessOverpricingLoss ==
  /\ SimulationDone
  /\ RLt(args.input.recommendedPrice, args.input.manualPrice)
  /\ RLt(R(0), result.overpricingLoss)
  /\ result.underpricingLoss = R(0)

(***************************************************************************)
(* computeHistoricalStats on histories around its window lengths           *)
(***************************************************************************)
\* StepSeries: n consecutive days with 10 rooms, a sold on each of the first
\* k days and b on each of the others; a level of -1 is a day without
\* rooms.  The histories are of 1 day, of one day less than, exactly and
\* one day more than the window lengths 14, 28 and 30, and of half as much
\* again, changing level after 2, 16, 23 or 27 days or not at all
TrendSeries ==
  LET StepSeries(n, k, a, b) ==
        [i \in 1..n |->
           LET level == IF i <= k THEN a ELSE b
           IN  IF level < 0 THEN HistoricalRecord(HistoryStart + i - 1, 0, 0, 100)
               ELSE HistoricalRecord(HistoryStart + i - 1, 10, level, 100)]
      lengths == {1, 13, 14, 15, 27, 28, SeriesLength - 1, SeriesLength,
                  SeriesLength + 1, SeriesLength + 15}
      levels == {-1, 0, 4, 5, 10}
  IN  { StepSeries(n, k, a, b) :
          n \in lengths, k \in {0, 2, 16, 23, 27}, a \in levels, b \in levels }

InitTrends ==
  /\ fn = "computeHistoricalStats"
  /\ args \in [records : {<<l>> : l \in TrendSeries \cup HistorySeries}]
  /\ result = NoResult
  /\ pc = "ready"
  /\ today = 0
  /\ ProviderCold

NextTrends == CallComputeHistoricalStats

SpecTrends == InitTrends /\ [][NextTrends]_vars

\* the sorted records of a finished computeHistoricalStats call
StatsRecords == SortedCopy(args.records[1]).sorted

\* the multipliers and the booking pace are in their ranges
TrendsInRange ==
  /\ IsNumberIn(result.rolling7DayTrend, Rat(8, 10), Rat(12, 10))
  /\ IsNumberIn(result.rolling30DaySeasonality, Rat(7, 10), Rat(13, 10))
  /\ IsNumberIn(result.recentMomentum14Day, Rat(85, 100), Rat(115, 100))
  /\ \A d \in 0..6 : IsNumberIn(result.weekdayBookingPace[d], R(-1), R(1))

\* a statistic whose window the history does not fill is neutral
ShortHistoryNeutral ==
  LET n == Len(StatsRecords)
  IN  /\ n < 14 => result.rolling7DayTrend = R(1) /\ result.recentMomentum14Day = R(1)
      /\ n < 30 => result.rolling30DaySeasonality = R(1)
      /\ n < 28 => \A d \in 0..6 : result.weekdayBookingPace[d] = R(0)

\* a statistic whose denominator is 0 is neutral
ZeroDenominatorNeutral ==
  LET sorted == StatsRecords
      n == Len(sorted)
      avgOccupancy == MeanOccupancyOver(sorted, n)
  IN  /\ (n >= 14 /\ MeanOccupancyOver(SliceBetween(sorted, 14, 7), 7) = R(0))
           => result.rolling7DayTrend = R(1)
      /\ avgOccupancy = R(0)
           => /\ result.rolling30DaySeasonality = R(1)
              /\ result.recentMomentum14Day = R(1)
      /\ n >= 28 =>
           \A d \in 0..6 :
             WeekdayMean(SliceBetween(sorted, 28, 14), d, R(0)) = R(0)
               => result.weekdayBookingPace[d] = R(0)

\* C24: for every non-empty record list rolling7DayTrend is in [0.8, 1.2]
\* (1.0 with fewer than 14 records), rolling30DaySeasonality in [0.7, 1.3]
\* (1.0 with fewer than 30 records), recentMomentum14Day in [0.85, 1.15]
\* (1.0 with fewer than 14 records), every weekdayBookingPace entry in
\* [-1, 1] (all 0 with fewer than 28 records), and a denominator of 0 gives
\* the neutral value
C24_TrendsBoundedAndNeutral ==
  (StatsDone /\ args.records # <<>> /\ Len(args.records[1]) > 0) =>
    (TrendsInRange /\ ShortHistoryNeutral /\ ZeroDenominatorNeutral)

\* a history that fills every window, with an empty week before a busy
\* last week: the 7-day trend is neutral while the momentum is clamped
C24_WitnessEmptyPriorWeek ==
  /\ StatsDone
  /\ Len(StatsRecords) >= 30
  /\ MeanOccupancyOver(SliceBetween(StatsRecords, 14, 7), 7) = R(0)
  /\ RLt(R(0), MeanOccupancyOver(SliceLast(StatsRecords, 7), 7))
  /\ result.rolling7DayTrend = R(1)
  /\ result.recentMomentum14Day = Rat(115, 100)

(***************************************************************************)
(* calculateForecastAccuracy on more days than the rolling window holds    *)
(***************************************************************************)
\* forecast records of n consecutive days with predictions of 40..89 and
\* actual occupancies of base..base + 49 (a base of 1 gives percentage
\* errors far above 100), every fifth day with an actual occupancy of 0, in
\* ascending order, in descending order and with the odd days before the
\* even ones
ForecastSeries ==
  LET Day(i, base) ==
        ForecastRecord(HistoryStart + i - 1, 40 + ((7 * i) % 50),
                       IF i % 5 = 0 THEN 0 ELSE base + ((11 * i) % 50))
      Ascending(n, base) == [i \in 1..n |-> Day(i, base)]
      OddsFirst(s) ==
        SelectSeq(s, LAMBDA r : r.date % 2 = 1) \o SelectSeq(s, LAMBDA r : r.date % 2 = 0)
      lengths == {SeriesLength - 1, SeriesLength, SeriesLength + 1, SeriesLength + 10}
      series == {Ascending(n, base) : n \in lengths, base \in {1, 40}}
  IN  series \cup {Reversed(s) : s \in series} \cup {OddsFirst(s) : s \in series}

InitAccuracy ==
  /\ fn = "calculateForecastAccuracy"
  /\ args \in [records : ForecastLists \cup ForecastSeries]
  /\ result = NoResult
  /\ pc = "ready"
  /\ today = 0
  /\ ProviderCold

NextAccuracy == CallCalculateForecastAccuracy

SpecAccuracy == InitAccuracy /\ [][NextAccuracy]_vars

\* the records of the (at most 30) latest dates, in the order of the input
LatestRecords(records) ==
  SelectSeq(records, LAMBDA r :
    Cardinality({j \in DOMAIN records : records[j].date > r.date}) < 30)

AbsoluteErrorOfRecord(r) == R(Abs(r.predictedOccupancy - r.actualOccupancy))

\* the percentage error of a record as dailyErrors reports it
PercentageErrorOfRecord(r) ==
  IF r.actualOccupancy > 0
  THEN RRoundTo(RDiv(RMul(AbsoluteErrorOfRecord(r), R(100)), R(r.actualOccupancy)), 10)
  ELSE R(0)

\* [mae, mape, accuracy] of a non-empty list of records, by the formulas
\* of the overall metrics
MetricsOfRecords(records) ==
  LET n == Len(records)
      mae == RRoundTo(RDiv(RSum([k \in 1..n |-> AbsoluteErrorOfRecord(records[k])]),
                           R(n)), 10)
      mape == RRoundTo(RDiv(RSum([k \in 1..n |-> PercentageErrorOfRecord(records[k])]),
                            R(n)), 10)
      rest == RSub(R(100), mape)
  IN  [mae |-> mae, mape |-> mape,
       accuracy |-> IF RLt(rest, R(0)) THEN R(0)
                    ELSE IF RLt(R(100), rest) THEN R(100) ELSE rest]

\* C25: rolling30 is computed by the formulas of the overall metrics over
\* the (at most 30) records of the latest dates, whatever the order of the
\* input: rolling30.days = min(30, totalDays), with at most 30 records
\* rolling30 equals the overall metrics, a record whose actual occupancy is
\* 0 contributes a percentage error of 0, accuracy = clamp(100 - MAPE, 0,
\* 100), and an empty input gives mae = mape = 0 and accuracy = 100
C25_RollingAccuracy ==
  AccuracyDone =>
    LET records == args.records
        rolling == result.rolling30
        overall == [mae |-> result.mae, mape |-> result.mape,
                    accuracy |-> result.accuracy]
    IN  /\ result.totalDays = Len(records)
        /\ rolling.days = IntMin(30, result.totalDays)
        /\ Len(records) = 0 =>
             /\ overall = [mae |-> R(0), mape |-> R(0), accuracy |-> R(100)]
             /\ rolling = [mae |-> R(0), mape |-> R(0), accuracy |-> R(100), days |-> 0]
        /\ Len(records) > 0 =>
             /\ overall = MetricsOfRecords(records)
             /\ [f \in {"mae", "mape", "accuracy"} |-> rolling[f]] =
                  MetricsOfRecords(LatestRecords(records))
        /\ Len(records) <= 30 =>
             [f \in {"mae", "mape", "accuracy"} |-> rolling[f]] = overall
        /\ \A k \in DOMAIN result.dailyErrors :
             result.dailyErrors[k].actual = 0 =>
               result.dailyErrors[k].percentageError = R(0)

\* more than 30 days given latest first, with days of actual occupancy 0:
\* the rolling metrics differ from the overall ones
C25_WitnessWindowSlides ==
  /\ AccuracyDone
  /\ result.totalDays > 30
  /\ args.records[1].date > args.records[2].date
  /\ result.rolling30.days = 30
  /\ result.rolling30.mae # result.mae
  /\ result.rolling30.mape # result.mape
  /\ \E k \in DOMAIN result.dailyErrors : result.dailyErrors[k].actual = 0

(***************************************************************************)
(* calculateDemandScore with every component at its neutral value          *)
(***************************************************************************)
\* the weekday average is the base occupancy, the trend and seasonality
\* multipliers are 1.0, the booking pace velocity and the external signal
\* are 0, the weights are the defaults; baseOccupancy = 0, 0.01, ..., 1
NeutralDemandConfigs ==
  { [BareDemandConfig(Rat(i, 100)) EXCEPT
       !.trendMomentum = <<R(1)>>,
       !.historicalWeekdayAvg = <<Rat(i, 100)>>,
       !.historicalTrend7Day = <<R(1)>>,
       !.historicalSeasonality30Day = <<R(1)>>,
       !.bookingPaceVelocity = <<R(0)>>,
       !.externalSignalScore = <<R(0)>>] : i \in 0..100 }

InitNeutral ==
  /\ fn = "calculateDemandScore"
  /\ args \in [date : DemandDates, dayOffset : DayOffsets, config : NeutralDemandConfigs]
  /\ result = NoResult
  /\ pc = "ready"
  /\ today = 0
  /\ ProviderCold

NextNeutral == CallCalculateDemandScore

SpecNeutral == InitNeutral /\ [][NextNeutral]_vars

\* C26: with the default weights, no scheduled event, the weekday average
\* equal to baseOccupancy, trend and seasonality multipliers of 1.0, a
\* booking pace velocity of 0 and an external signal of 0,
\* calculateDemandScore returns a demandScore of 50 for every baseOccupancy
\* in [0, 1]
C26_NeutralDemandIsFifty ==
  (fn = "calculateDemandScore" /\ pc = "done" /\ result.event = <<>>) =>
    result.demandScore = R(50)

\* what the code computes: 50 + 0.7 * round(100 * baseOccupancy) + 7.5 -
\* 100 * baseOccupancy, rounded and clamped
NeutralDemandScoreOfCode ==
  (fn = "calculateDemandScore" /\ pc = "done" /\ result.event = <<>>) =>
    LET b == args.config.baseOccupancy
        base == RRound(RMul(b, R(100)))
    IN  result.demandScore =
          RClamp(RRound(RSub(RAdd(R(50), RAdd(RMul(Rat(7, 10), base), Rat(15, 2))),
                             RMul(b, R(100)))),
                 R(0), R(100))

(***************************************************************************)
(* calculatePrice as generateForecasts calls it, on two demand scores      *)
(***************************************************************************)
\* { basePrice, projectedOccupancy: demand.demandScore } (mockData.ts)
ForwardPricingConfig(basePrice, demandScore) ==
  [BarePricingConfig(basePrice) EXCEPT !.projectedOccupancy = <<demandScore>>]

\* whole demand scores 0 <= lower <= higher <= 100, base prices that are 0,
\* whole and not whole
ForwardArgs ==
  [lower : 0..100, higher : 0..100,
   basePrice : BasePrices \cup {R(1), Rat(199, 2), R(333)}]

InitForward ==
  /\ fn = "calculatePrice"
  /\ args \in {a \in ForwardArgs : a.lower <= a.higher}
  /\ result = NoResult
  /\ pc = "ready"
  /\ today = 0
  /\ ProviderCold

\* the two calls of the forward pipeline, one per demand score
CallCalculatePriceForward ==
  /\ pc = "ready"
  /\ fn = "calculatePrice"
  /\ "lower" \in DOMAIN args
  /\ result' =
       [lower |-> calculatePrice(R(args.lower),
                                 ForwardPricingConfig(args.basePrice, R(args.lower))),
        higher |-> calculatePrice(R(args.higher),
                                  ForwardPricingConfig(args.basePrice, R(args.higher)))]
  /\ pc' = "done"
  /\ UNCHANGED <<fn, args, today>>
  /\ UNCHANGED providerVars

NextForward == CallCalculatePriceForward

SpecForward == InitForward /\ [][NextForward]_vars

\* C27: in the forward pipeline (projectedOccupancy = demandScore, default
\* floor, ceiling and saturation threshold) the recommended price does not
\* decrease when demand rises: for whole demand scores 0 <= d1 <= d2 <= 100
\* and every basePrice >= 0 the price of d1 is at most the price of d2
C27_PriceMonotoneInDemand ==
  (fn = "calculatePrice" /\ pc = "done") =>
    RLe(result.lower.recommendedPrice, result.higher.recommendedPrice)

\* a premium day and a saturated day: the saturated day costs more
C27_WitnessIntoSaturation ==
  /\ fn = "calculatePrice" /\ pc = "done"
  /\ args.lower = 95 /\ args.higher = 96
  /\ ~result.lower.isSaturated /\ result.higher.isSaturated
  /\ RLt(result.lower.recommendedPrice, result.higher.recommendedPrice)

\* the manual price is the recommended price
ManualAtRecommended ==
  SimulationDone /\ args.input.manualPrice = args.input.recommendedPrice

\* C28: when manualPrice equals recommendedPrice the manual scenario is the
\* AI scenario, for every predictedOccupancy in 0..100 and every totalRooms:
\* manualOccupancy = aiOccupancy, manualRevenue = aiRevenue, revenueVsAI = 0
\* and both underpricingLoss and overpricingLoss are 0
C28_ManualAtRecommendedIsAI ==
  ManualAtRecommended =>
    /\ result.manualOccupancy = result.aiOccupancy
    /\ result.manualRevenue = result.aiRevenue
    /\ result.revenueVsAI = R(0)
    /\ result.underpricingLoss = R(0)
    /\ result.overpricingLoss = R(0)

\* the part of C28 that holds for every predicted occupancy: no loss
NoLossAtRecommended ==
  ManualAtRecommended =>
    result.underpricingLoss = R(0) /\ result.overpricingLoss = R(0)

\* the whole of C28 holds where the predicted occupancy lies in the band
\* calculateElasticity clamps to, and for a recommended price of 0
ManualAtRecommendedInBand ==
  (/\ ManualAtRecommended
   /\ \/ args.input.recommendedPrice = R(0)
      \/ /\ RLe(R(15), args.input.predictedOccupancy)
         /\ RLe(args.input.predictedOccupancy, R(98)))
    => /\ result.manualOccupancy = result.aiOccupancy
       /\ result.manualRevenue = result.aiRevenue
       /\ result.revenueVsAI = R(0)

(***************************************************************************)
(* The events edge function under concurrent invocations for one city.     *)
(* An invocation runs from one await to the next in one step: the cache    *)
(* query, the provider request, the delete and the insert.  pc[p] is the   *)
(* await invocation p stands at, result[p] its local variables             *)
(* (twentyFourHoursAgo, rows), response[p] the response it sent.  A row of *)
(* event_cache has the id the table generates.                             *)
(***************************************************************************)
MaxInvocations == 3

Invocations == 1..MaxInvocations

\* the events the provider lists for the city during the model's hours
ProviderEvents == {[event_date |-> 3, name |-> "expo"], [event_date |-> 5, name |-> "derby"]}

NoLocals == [twentyFourHoursAgo |-> 0, rows |-> {}]

InitEvents ==
  /\ fn = "events"
  /\ args = [city |-> "Almaty"]
  /\ result = [p \in Invocations |-> NoLocals]
  /\ pc = [p \in Invocations |-> "request"]
  /\ today = 0
  /\ clock = 0
  /\ memCache = {}
  /\ weather_cache = {}
  /\ event_cache = {}
  /\ response = [p \in Invocations |-> <<>>]

\* lines 186-199: the cache query and the response of a cache hit
EventsCheckCache(p) ==
  /\ pc[p] = "request"
  /\ LET normalizedCity == ToLowerCase(sanitizeCity(args.city))
         twentyFourHoursAgo == clock - 24
         cached == {r \in event_cache : r.city = normalizedCity
                                          /\ r.fetched_at >= twentyFourHoursAgo}
     IN  /\ result' = [result EXCEPT ![p].twentyFourHoursAgo = twentyFourHoursAgo]
         /\ IF cached # {}
            THEN /\ response' = [response EXCEPT ![p] = <<[source |-> "cache", data |-> cached]>>]
                 /\ pc' = [pc EXCEPT ![p] = "responded"]
            ELSE /\ pc' = [pc EXCEPT ![p] = "fetch"]
                 /\ UNCHANGED response
  /\ UNCHANGED <<fn, args, today, clock, memCache, weather_cache, event_cache>>

\* lines 226-280: the provider's answer (an error status, no event, events)
\* and the rows made of it
EventsFetch(p) ==
  /\ pc[p] = "fetch"
  /\ \E upstream \in {"failed", "none", "events"} :
       IF upstream = "events"
       THEN /\ result' = [result EXCEPT ![p].rows =
                           {[city |-> ToLowerCase(sanitizeCity(args.city)),
                             event_date |-> e.event_date, name |-> e.name] :
                              e \in ProviderEvents}]
            /\ pc' = [pc EXCEPT ![p] = "delete"]
            /\ UNCHANGED response
       ELSE /\ response' = [response EXCEPT ![p] = <<[source |-> "api", data |-> {}]>>]
            /\ pc' = [pc EXCEPT ![p] = "responded"]
            /\ UNCHANGED result
  /\ UNCHANGED <<fn, args, today, clock, memCache, weather_cache, event_cache>>

\* lines 283-287: the rows of the city older than the time computed before
\* the cache query are deleted
EventsDeleteStale(p) ==
  /\ pc[p] = "delete"
  /\ event_cache' =
       {r \in event_cache :
          ~(r.city = ToLowerCase(sanitizeCity(args.city))
              /\ r.fetched_at < result[p].twentyFourHoursAgo)}
  /\ pc' = [pc EXCEPT ![p] = "insert"]
  /\ UNCHANGED <<fn, args, result, today, clock, memCache, weather_cache, response>>

\* lines 289-295: the insert (id and fetched_at take their defaults) and the
\* response
EventsInsert(p) ==
  /\ pc[p] = "insert"
  /\ event_cache' =
       event_cache \cup
         {[id |-> <<p, r.name>>, city |-> r.city, event_date |-> r.event_date,
           name |-> r.name, fetched_at |-> clock] : r \in result[p].rows}
  /\ response' = [response EXCEPT ![p] = <<[source |-> "api", data |-> result[p].rows]>>]
  /\ pc' = [pc EXCEPT ![p] = "responded"]
  /\ UNCHANGED <<fn, args, result, today, clock, memCache, weather_cache>>

\* time passes between the steps of the invocations
EventsHoursPass ==
  /\ clock + 4 * TickHours <= MaxClock
  /\ clock' = clock + 4 * TickHours
  /\ UNCHANGED <<fn, args, result, pc, today, memCache, weather_cache, event_cache,
                 response>>

NextEvents ==
  \/ \E p \in Invocations : EventsCheckCache(p)
  \/ \E p \in Invocations : EventsFetch(p)
  \/ \E p \in Invocations : EventsDeleteStale(p)
  \/ \E p \in Invocations : EventsInsert(p)
  \/ EventsHoursPass

SpecEvents == InitEvents /\ [][NextEvents]_vars

\* the rows of a set that are copies of one event
CopiesOf(rows, r) ==
  {q \in rows : q.city = r.city /\ q.event_date = r.event_date /\ q.name = r.name}

\* C29: after any interleaving of invocations of the events edge function
\* for one city, each event (city, event date, name) appears at most once
\* among the cached rows a lookup returns
C29_NoDuplicateCachedEvents ==
  \A p \in Invocations :
    (pc[p] = "responded" /\ response[p][1].source = "cache") =>
      \A r \in response[p][1].data : Cardinality(CopiesOf(response[p][1].data, r)) = 1

\* invocations that do not overlap leave no duplicate: a lookup served from
\* the cache after one refresh
SingleRefreshServed ==
  \E p \in Invocations :
    /\ pc[p] = "responded" /\ response[p][1].source = "cache"
    /\ Cardinality(response[p][1].data) = Cardinality(ProviderEvents)

(***************************************************************************)
(* The weather edge function invoked again and again for one city, hours   *)
(* apart.  result remembers the last refresh from the provider: its hour,  *)
(* the dates it wrote, whether one of them was cached before, and whether  *)
(* the last invocation was that refresh (lookup = FALSE) or a lookup after *)
(* it; called tells whether the last invocation asked the provider.        *)
(***************************************************************************)
NoRefresh ==
  [refreshedAt |-> -1, dates |-> {}, overwrote |-> FALSE, lookup |-> FALSE,
   called |-> FALSE]

InitWeather ==
  /\ fn = "weather"
  /\ args = [city |-> "Almaty"]
  /\ result = NoRefresh
  /\ pc = "ready"
  /\ today = 0
  /\ ProviderCold

\* one invocation at the hour of the clock; the provider fails or answers
InvokeWeather ==
  \E upstream \in {"ok", "failed"} :
    LET out == weatherFunction(args.city, clock, weather_cache, TRUE, upstream)
        cacheKey == ToLowerCase(sanitizeCity(args.city))
        cached == {r \in weather_cache : r.city = cacheKey /\ r.fetched_at >= clock - 6}
        called == cached = {}
        written == {DateOf(clock) + k : k \in 0..(ForecastDays - 1)}
    IN  /\ weather_cache' = out.table
        /\ response' = <<out.res>>
        /\ result' =
             IF called /\ upstream = "ok"
             THEN [refreshedAt |-> clock, dates |-> written,
                   overwrote |-> \E r \in weather_cache :
                                   r.city = cacheKey /\ r.date \in written,
                   lookup |-> FALSE, called |-> TRUE]
             ELSE [result EXCEPT !.lookup = TRUE, !.called = called]
        /\ pc' = "done"
        /\ UNCHANGED <<fn, args, today, clock, memCache, event_cache>>

NextWeather ==
  \/ InvokeWeather
  \/ HoursPass

SpecWeather == InitWeather /\ [][NextWeather]_vars

\* a lookup less than 6 hours after the last refresh
LookupAfterRefresh ==
  /\ fn = "weather" /\ pc = "done"
  /\ result.lookup
  /\ result.refreshedAt >= 0
  /\ clock - result.refreshedAt < 6

\* the lookup did not ask the provider and its response has a row for every
\* date the refresh wrote
ServedFromRefresh ==
  /\ ~result.called
  /\ response[1].body.data # <<>>
  /\ \A d \in result.dates :
       \E i \in DOMAIN response[1].body.data[1] : response[1].body.data[1][i].date = d

\* C30: after the weather edge function refreshes a city's forecast from
\* the provider (first fetch or time-to-live lapsed), every lookup for the
\* city during the following 6 hours is served from the weather cache
\* without calling the provider and returns every daily row the refresh
\* wrote, rows for dates cached before the refresh included
C30_RefreshServesSixHours == LookupAfterRefresh => ServedFromRefresh

\* the part of C30 that holds: a refresh that wrote only dates that were not
\* cached before
NewDatesServedSixHours ==
  (LookupAfterRefresh /\ ~result.overwrote) => ServedFromRefresh

\* a lookup served in full from a refresh of new dates
FirstFetchServed ==
  LookupAfterRefresh /\ ~result.overwrote /\ clock > result.refreshedAt
    /\ ServedFromRefresh
====
